---- MODULE Spec2Model ----
(***************************************************************************)
(* Model of the genetic optimisation engine of FloPyArcade.py              *)
(* (class FloPyAgent, agentMode 'genetic'): the generation loop of         *)
(* runGenetic, the batched evaluation of the agents on a worker pool, the  *)
(* novelty archive, the reproduction of the next generation and the resume *)
(* of an interrupted run from the files it left on disk.                   *)
(*                                                                         *)
(* Conventions.  Agent indices are 0-based as in the source (file names    *)
(* use index+1); generations are numbered as in the file names (1-based),  *)
(* geneticGeneration is the 0-based loop variable.  A numpy float that is  *)
(* the result of a division is an exact fraction [num, den].  An attribute *)
(* of self that has not been assigned yet holds Undef; reading it raises   *)
(* AttributeError.  A file that does not exist holds NoFile.               *)
(***************************************************************************)
EXTENDS Integers, Sequences, FiniteSets, TLC

\* ---------------------------------------------------------------- sizes
\* hyParams['NAGENTS'], ['NAGENTELITES'], ['NNOVELTYELITES'], ['NGENERATIONS'],
\* ['NGAMESAVERAGED'], ['NAGENTSTEPS'] and envSettings['NAGENTSPARALLEL']
NAGENTS == 3
NAGENTELITES == 2
NNOVELTYELITES == 1
NGENERATIONS == 3
NGAMESAVERAGED == 2
NAGENTSTEPS == 3
NAGENTSPARALLEL == 2
\* default of the constructor argument maxTasksPerWorkerMutate
maxTasksPerWorkerMutate == 1000
\* largest value of envSettings['SEEDAGENT'] and of envSettings['SEEDENV']
MaxSeedAgent == 2
MaxSeedEnv == 1
\* largest value of the constructor argument maxTasksPerWorker
MaxTasksPerWorker == 2
\* largest value of hyParams['ADDNOVELTYEVERY']
MaxAddNoveltyEvery == 2
\* how often the process may be stopped and started again with RESUME
MaxRestarts == 1

\* an attribute that was never assigned, and the value v of one that was
Undef == <<>>
Val(v) == <<v>>
\* a file that does not exist, and a file of content v
NoFile == <<>>
File(v) == <<v>>

\* ------------------------------------------------------------ arithmetic
RECURSIVE GCD(_, _)
GCD(a, b) == IF b = 0 THEN a ELSE GCD(b, a % b)

Abs(x) == IF x < 0 THEN -x ELSE x

\* a float, kept exact: num/den with den > 0, in lowest terms
Frac(n, d) ==
    LET g == GCD(Abs(n), d)
    IN  IF n = 0 THEN [num |-> 0, den |-> 1]
        ELSE [num |-> n \div g, den |-> d \div g]

FracAdd(x, y) == Frac(x.num * y.den + y.num * x.den, x.den * y.den)

FracLess(x, y) == x.num * y.den < y.num * x.den

FracOfInt(n) == [num |-> n, den |-> 1]

RECURSIVE FracSum(_)
FracSum(s) == IF s = <<>> THEN FracOfInt(0)
              ELSE FracAdd(Head(s), FracSum(Tail(s)))

\* numpy.mean of a non-empty list
FracMean(s) == LET t == FracSum(s) IN Frac(t.num, t.den * Len(s))

\* numpy.divide(vector, n)
DivideVector(v, n) == [i \in 1..Len(v) |-> Frac(v[i], n)]

\* --------------------------------------------------------------- sorting
\* numpy.argsort(values): the 0-based indices in ascending order of value.
\* Arrays this short are sorted by insertion, which keeps equal values in
\* index order.
RECURSIVE ArgSortFrom(_, _)
ArgSortFrom(values, left) ==
    IF left = {} THEN <<>>
    ELSE LET m == CHOOSE i \in left :
                    \A j \in left \ {i} :
                        \/ FracLess(values[i + 1], values[j + 1])
                        \/ (~FracLess(values[j + 1], values[i + 1]) /\ i < j)
         IN  <<m>> \o ArgSortFrom(values, left \ {m})

argsort(values) == ArgSortFrom(values, 0..(Len(values) - 1))

\* s[::-1]
Reversed(s) == [i \in 1..Len(s) |-> s[Len(s) + 1 - i]]

\* s[:k]
Take(s, k) == SubSeq(s, 1, IF k < Len(s) THEN k ELSE Len(s))

\* argsort(values)[::-1][:k]
ArgSortDescendingTop(values, k) == Take(Reversed(argsort(values)), k)

\* numpy.arange(n) and range(n)
arange(n) == [i \in 1..n |-> i - 1]

RECURSIVE Flatten(_)
\* [action for actions_ in actions for action in actions_]
Flatten(ss) == IF ss = <<>> THEN <<>> ELSE Head(ss) \o Flatten(Tail(ss))

\* ---------------------------------------------------------------- chunks
\* a variant that yields full chunks only: lst[i:i + n] for
\* i in range(0, len(lst) - n + 1, n)
RECURSIVE yieldFullChunks(_, _)
yieldFullChunks(lst, n) ==
    IF Len(lst) < n THEN <<>>
    ELSE <<SubSeq(lst, 1, n)>> \o yieldFullChunks(SubSeq(lst, n + 1, Len(lst)), n)

RECURSIVE yieldChunks(_, _)
\* lst[i:i + n] for i in range(0, len(lst), n)
yieldChunks(lst, n) ==
    IF lst = <<>> THEN <<>>
    ELSE IF Len(lst) <= n THEN <<lst>>
    ELSE <<SubSeq(lst, 1, n)>> \o yieldChunks(SubSeq(lst, n + 1, Len(lst)), n)

\* ------------------------------------------------------------- the policy
\* A policy (a keras model) is the list of its parameter tensors, here two
\* tensors of one integer each.

\* createNNModel(seed): the initial weights are a function of the seed only
createNNModel(seed) == <<seed % 3, (seed \div 2) % 3>>

actionSpace == <<"up", "keep", "down">>

\* argmax(getqsGivenAgentModel(agent, observation)): the index, 0-based, of
\* the action the policy prefers at an observation
getActionIdx(agent, observation) ==
    (agent[1] + agent[2] * observation) % Len(actionSpace)

\* ---------------------------------------------------------- the simulator
\* The aquifer is a row of cells 0..EastBoundary; the particle is at a cell.
\* The game is won when the particle reaches the eastern boundary and lost
\* when it returns to the western boundary.
EastBoundary == 3

\* FloPyEnv.reset(_seed): the particle is placed as the seed says
envReset(seed) == 1 + (seed % 2)

\* FloPyEnv.runMODFLOW: the solver does not terminate normally
MODFLOWFails(pos, action, seed) ==
    action = "down" /\ pos = 2 /\ seed % 2 = 0

\* FloPyEnv.step(observations, action, rewardCurrent): the new state, or the
\* exception of runMODFLOW
envStep(pos, action, rewardCurrent, seed) ==
    IF MODFLOWFails(pos, action, seed)
    THEN [raised |-> TRUE, pos |-> pos, reward |-> 0, done |-> FALSE,
          success |-> FALSE]
    ELSE LET new == CASE action = "up" -> pos + 1
                      [] action = "down" -> pos - 1
                      [] OTHER -> pos
             east == new >= EastBoundary
             west == new <= 0
         IN  [raised |-> FALSE, pos |-> new,
              reward |-> IF west THEN -rewardCurrent ELSE 1,
              done |-> east \/ west,
              success |-> east]

\* -------------------------------------------------------------- a rollout
\* a variant that returns what the game accumulated, won or not
RewardOfGameAccumulated(success, r) == r

\* lines 689-691: the reward a rollout returns when the game is over or the
\* steps are used up
RewardOfGame(success, r) == IF success = FALSE THEN 0 ELSE r

\* The step loop of runAgentsGeneticSingleRun from step `step` on: the
\* reward returned, the actions taken, and whether env.step raised.
RECURSIVE RolloutFrom(_, _, _, _, _, _)
RolloutFrom(agent, seed, pos, step, r, actions) ==
    LET action == actionSpace[getActionIdx(agent, pos) + 1]
        s == envStep(pos, action, r, seed)
        r2 == r + s.reward
        actions2 == Append(actions, action)
    IN  IF s.raised
        THEN [raised |-> TRUE, r |-> 0, actions |-> actions, success |-> FALSE,
              accumulated |-> r]
        ELSE IF s.done \/ step = NAGENTSTEPS - 1
        THEN [raised |-> FALSE,
              r |-> RewardOfGame(s.success, r2),
              actions |-> actions2, success |-> s.success,
              accumulated |-> r2]
        ELSE RolloutFrom(agent, seed, s.pos, step + 1, r2, actions2)

\* one game of one agent: SEEDTEMP = SEEDENV + currentGame
Rollout(agent, SEEDENV, currentGame) ==
    RolloutFrom(agent, SEEDENV + currentGame, envReset(SEEDENV + currentGame),
                0, 0, <<>>)


\* ------------------------------------------------------ the random numbers
\* numpy's generator is seeded once with SEEDAGENT (numpySeed(self.SEED)); the
\* k-th number a reproduction task draws is a function of the seed and of
\* the task.
RandomDraw(seed, childIdx, k) ==
    ((seed + 7) * 7 + childIdx * 5 + k * 3 + childIdx * k) % 10

\* numpy.random.randint(n)
randint(n, seed, childIdx) == RandomDraw(seed, childIdx, 0) % n

\* numpy.random.random(), in tenths
random(seed, childIdx, paramIdx) == RandomDraw(seed, childIdx, 1 + 2 * paramIdx)

\* numpy.random.randn(), rounded away from zero to one unit
randn(seed, childIdx, paramIdx) ==
    IF RandomDraw(seed, childIdx, 2 + 2 * paramIdx) % 2 = 0 THEN 1 ELSE -1

\* hyParams['MUTATIONPOWER']
MUTATIONPOWER == 1
\* the values of hyParams['MUTATIONPROBABILITY'], in tenths
MutationProbabilities == {5}

\* mutateDecision(probability)
mutateDecision(probability, seed, childIdx, paramIdx) ==
    random(seed, childIdx, paramIdx) < probability

\* a variant that adds the noise to every tensor, selected or not
mutateGeneticEveryTensor(agent, mProb, seed, childIdx) ==
    [paramIdx \in 1..Len(agent) |->
        agent[paramIdx] + MUTATIONPOWER * randn(seed, childIdx, paramIdx - 1)]

\* mutateGenetic(agent): every tensor that is selected gets the same noise
\* added to all its entries
mutateGenetic(agent, mProb, seed, childIdx) ==
    [paramIdx \in 1..Len(agent) |->
        IF mutateDecision(mProb, seed, childIdx, paramIdx - 1)
        THEN agent[paramIdx] + MUTATIONPOWER * randn(seed, childIdx, paramIdx - 1)
        ELSE agent[paramIdx]]

\* ------------------------------------------------------------- the state
Generations == 1..NGENERATIONS
AgentSlots == 1..NAGENTS

VARIABLES
    \* --- files of the run, in temp/<MODELNAME>/ and models/
    agentModels,        \* [generation][slot]: _gen<g>_agent<i>.h5
    agentResults,       \* [generation][slot]: _gen<g>_agent<i>_results.p, its 'actions'
    agentsRewardsMean,  \* [generation]: _gen<g>_agentsRewardsMean.p
    agentsSortedParentIndexes, \* [generation]: _gen<g>_agentsSortedParentIndexes.p
    noveltyArchiveFile, \* [generation]: _gen<g>_noveltyArchive.p
    agentBest,          \* [generation]: _gen<g>_agentBest.h5
    bestAgentSaved,     \* [generation]: models/<MODELNAME>_gen<g>_avg<reward>.h5
    \* --- settings
    envSettings,        \* RESUME, KEEPMODELHISTORY, SEEDAGENT, SEEDENV
    hyParams,           \* ADDNOVELTYEVERY, MUTATIONPROBABILITY
    maxTasksPerWorker,  \* constructor argument
    noveltySearchArg,   \* argument noveltySearch of runGenetic
    \* --- the coordinating process
    pc,                 \* where the process is
    raised,             \* the exception that ended the process, or "none"
    printed,            \* the messages to the operator that matter here
    geneticGeneration,
    tempModelPrefix,    \* generation number of self.tempModelPrefix
    tempNextModelPrefix,
    rereturnChildrenGenetic,
    currentGame,
    chunksTotal,        \* the chunks a generator still has to yield
    reward_agents,
    reward_agentsMean,
    rewards,
    bestAgentReward,
    sortedParentIdxs,   \* the local variable of runGenetic
    selfSortedParentIdxs, \* self.sortedParentIdxs
    candidateParentIdxs,
    candidateNoveltyParentIdxs,
    \* --- novelty search
    noveltySearch,      \* self.noveltySearch
    noveltyArchive,     \* entry k is noveltyArchive['agent' + str(k)]
    noveltyItemCount,
    agentsUnique,
    agentsUniqueIDs,
    agentsDuplicate,
    actionsUniqueIDMapping, \* the keys of the defaultdict, in the order of their ids
    novelties,
    noveltyFilenames,
    \* --- the worker pool of multiprocessChunks
    pool,               \* function, chunk, the tasks finished, in the order they
                        \* finished, and the tasks that sleep before a retry
    \* --- the environment of the process
    restarts            \* how often the process was started again

diskVars == <<agentModels, agentResults, agentsRewardsMean,
              agentsSortedParentIndexes, noveltyArchiveFile, agentBest,
              bestAgentSaved>>
settingVars == <<hyParams, maxTasksPerWorker, noveltySearchArg>>
loopVars == <<geneticGeneration, tempModelPrefix, tempNextModelPrefix,
              rereturnChildrenGenetic>>
evalVars == <<currentGame, chunksTotal, reward_agents, reward_agentsMean>>
rankVars == <<rewards, bestAgentReward, sortedParentIdxs, selfSortedParentIdxs>>
parentVars == <<candidateParentIdxs, candidateNoveltyParentIdxs>>
noveltyVars == <<noveltySearch, noveltyArchive, noveltyItemCount, agentsUnique,
                 agentsUniqueIDs, agentsDuplicate, actionsUniqueIDMapping,
                 novelties, noveltyFilenames>>
vars == <<diskVars, settingVars, envSettings, pc, raised, printed, loopVars,
          evalVars, rankVars, parentVars, noveltyVars, pool, restarts>>

NoPool == [function |-> "none", chunk |-> <<>>, finished |-> <<>>,
           asleep |-> {}]

\* the attributes runGenetic sets before its loop (lines 221-234); everything
\* else of self is unassigned when a process starts
StartOfProcess(search) ==
    /\ pc = "loop"
    /\ raised = "none"
    /\ printed = {}
    /\ geneticGeneration = 0
    /\ tempModelPrefix = 0
    /\ tempNextModelPrefix = 0
    /\ rereturnChildrenGenetic = FALSE
    /\ currentGame = 0
    /\ chunksTotal = <<>>
    /\ reward_agents = <<>>
    /\ reward_agentsMean = <<>>
    /\ rewards = Undef
    /\ bestAgentReward = Undef
    /\ sortedParentIdxs = Undef
    /\ selfSortedParentIdxs = Undef
    /\ candidateParentIdxs = Undef
    /\ candidateNoveltyParentIdxs = Undef
    /\ noveltySearch = IF search THEN Val(TRUE) ELSE Undef
    /\ noveltyArchive = IF search THEN Val(<<>>) ELSE Undef
    /\ noveltyItemCount = IF search THEN Val(0) ELSE Undef
    /\ agentsUnique = <<>>
    /\ agentsUniqueIDs = <<>>
    /\ agentsDuplicate = <<>>
    /\ actionsUniqueIDMapping = <<>>
    /\ novelties = Undef
    /\ noveltyFilenames = Undef
    /\ pool = NoPool

NoFiles == [g \in Generations |-> NoFile]

\* randomAgentGenetic(agentIdx): the agents of generation 1
randomAgentGenetic(agentIdx, SEEDAGENT) == createNNModel(SEEDAGENT + agentIdx)

\* A run that is not resumed: __init__ has written the agents of generation 1
\* (initializeGeneticAgents) and runGenetic has reached its loop.
Init ==
    /\ envSettings \in [RESUME : {FALSE}, KEEPMODELHISTORY : BOOLEAN,
                        SEEDAGENT : 0..MaxSeedAgent, SEEDENV : 0..MaxSeedEnv]
    /\ hyParams \in [ADDNOVELTYEVERY : 1..MaxAddNoveltyEvery,
                     MUTATIONPROBABILITY : MutationProbabilities]
    /\ maxTasksPerWorker \in 1..MaxTasksPerWorker
    /\ noveltySearchArg \in BOOLEAN
    /\ agentModels = [g \in Generations |-> [i \in AgentSlots |->
            IF g = 1 THEN File(randomAgentGenetic(i - 1, envSettings.SEEDAGENT))
            ELSE NoFile]]
    /\ agentResults = [g \in Generations |-> [i \in AgentSlots |-> NoFile]]
    /\ agentsRewardsMean = NoFiles
    /\ agentsSortedParentIndexes = NoFiles
    /\ noveltyArchiveFile = NoFiles
    /\ agentBest = NoFiles
    /\ bestAgentSaved = NoFiles
    /\ restarts = 0
    /\ StartOfProcess(noveltySearchArg)


\* ------------------------------------------------------- the generation loop
\* agentCounts = [iAgent for iAgent in range(NAGENTS)]
agentCounts == arange(NAGENTS)

Raise(exception) ==
    /\ pc' = "raised"
    /\ raised' = exception

\* The head of the loop of runGenetic in a run that is not (or no longer)
\* resuming: generatePathPrefixes, then on to the evaluation (lines 235-239).
StartGeneration ==
    /\ pc = "loop"
    /\ geneticGeneration < NGENERATIONS
    /\ ~envSettings.RESUME
    /\ tempModelPrefix' = geneticGeneration + 1
    /\ tempNextModelPrefix' = geneticGeneration + 2
    /\ pc' = "evaluate"
    /\ UNCHANGED <<diskVars, settingVars, envSettings, raised, printed,
                   geneticGeneration, rereturnChildrenGenetic, evalVars,
                   rankVars, parentVars, noveltyVars, pool, restarts>>

\* range(NGENERATIONS) is exhausted: runGenetic returns
FinishRun ==
    /\ pc = "loop"
    /\ geneticGeneration = NGENERATIONS
    /\ pc' = "returned"
    /\ UNCHANGED <<diskVars, settingVars, envSettings, raised, printed,
                   loopVars, evalVars, rankVars, parentVars, noveltyVars,
                   pool, restarts>>

\* ------------------------------------------------------------- evaluation
\* runAgentsRepeatedlyGenetic up to its first call of runAgentsGenetic, or
\* from the return of one call to the next (lines 708-716), and the start of
\* runAgentsGenetic (lines 592-600)
BeginGame ==
    /\ \/ /\ pc = "evaluate"
          /\ currentGame' = 1
          /\ reward_agentsMean' = [i \in 1..Len(agentCounts) |-> 0]
       \/ /\ pc = "nextgame"
          /\ currentGame' = currentGame + 1
          /\ UNCHANGED reward_agentsMean
    /\ reward_agents' = <<>>
    /\ chunksTotal' = yieldChunks(agentCounts, NAGENTSPARALLEL * maxTasksPerWorker)
    /\ pc' = "chunks"
    /\ UNCHANGED <<diskVars, settingVars, envSettings, raised, printed,
                   loopVars, rankVars, parentVars, noveltyVars, pool, restarts>>

\* multiprocessChunks, first half: the pool is created and the chunk is
\* handed to it (p.map_async); the caller then waits in pasync.get()
SubmitChunk(function) ==
    /\ chunksTotal # <<>>
    /\ pool' = [function |-> function, chunk |-> Head(chunksTotal),
                finished |-> <<>>, asleep |-> {}]
    /\ chunksTotal' = Tail(chunksTotal)
    /\ pc' = "wait"

SubmitRollouts ==
    /\ pc = "chunks"
    /\ SubmitChunk("runAgentsGeneticSingleRun")
    /\ UNCHANGED <<diskVars, settingVars, envSettings, raised, printed,
                   loopVars, currentGame, reward_agents, reward_agentsMean,
                   rankVars, parentVars, noveltyVars, restarts>>

\* the arguments of the chunk whose task has not finished
Pending == {pool.chunk[k] : k \in 1..Len(pool.chunk)} \
           {pool.finished[k].arg : k \in 1..Len(pool.finished)}

\* a variant of a pool with a worker for every task of the chunk
RunningWholeChunk == Pending

\* the tasks a worker is busy with: Pool(processes=NAGENTSPARALLEL) hands the
\* tasks out in the order of the chunk, one to every worker that is free
Running ==
    LET handedOut == IF Len(pool.finished) + NAGENTSPARALLEL < Len(pool.chunk)
                     THEN Len(pool.finished) + NAGENTSPARALLEL
                     ELSE Len(pool.chunk)
    IN  {pool.chunk[k] : k \in 1..handedOut} \
        {pool.finished[k].arg : k \in 1..Len(pool.finished)}

\* the 'actions' of the results of one agent after the game: fresh lists in
\* game 1, the lists of the file in a later game, with the actions of this
\* game in place currentGame
ResultsAfterGame(old, game, actions) ==
    LET before == IF game = 1
                  THEN [g \in 1..NGAMESAVERAGED |-> <<>>]
                  ELSE old[1]
    IN  [before EXCEPT ![game] = before[game] \o actions]

\* runAgentsGeneticSingleRun(agentCount) on a worker: one game of one agent
runAgentsGeneticSingleRun(agentCount) ==
    /\ pc = "wait"
    /\ pool.function = "runAgentsGeneticSingleRun"
    /\ agentCount \in Running
    /\ LET slot == agentCount + 1
           file == agentModels[tempModelPrefix][slot]
       IN  IF file = NoFile \/ (currentGame > 1 /\ agentResults[tempModelPrefix][slot] = NoFile)
           THEN /\ pool' = [pool EXCEPT !.finished = Append(@,
                        [arg |-> agentCount, raised |-> "No such file", r |-> 0])]
                /\ UNCHANGED agentResults
           ELSE LET out == Rollout(file[1], envSettings.SEEDENV, currentGame)
                IN  IF out.raised
                    THEN /\ pool' = [pool EXCEPT !.finished = Append(@,
                                [arg |-> agentCount,
                                 raised |-> "MODFLOW did not terminate normally.",
                                 r |-> 0])]
                         /\ UNCHANGED agentResults
                    ELSE /\ pool' = [pool EXCEPT !.finished = Append(@,
                                [arg |-> agentCount, raised |-> "none", r |-> out.r])]
                         /\ agentResults' = [agentResults EXCEPT
                                ![tempModelPrefix][slot] = File(ResultsAfterGame(
                                    @, currentGame, out.actions))]
    /\ UNCHANGED <<agentModels, agentsRewardsMean, agentsSortedParentIndexes,
                   noveltyArchiveFile, agentBest, bestAgentSaved, settingVars,
                   envSettings, pc, raised, printed, loopVars, evalVars,
                   rankVars, parentVars, noveltyVars, restarts>>

\* the result of the task of the k-th argument of the chunk
ResultOf(arg) ==
    LET k == CHOOSE k \in 1..Len(pool.finished) : pool.finished[k].arg = arg
    IN  pool.finished[k]

\* a variant that hands the results back in the order the tasks finished
MapResultsAsFinished == pool.finished

\* pasync.get(): the results in the order of the arguments of the chunk
MapResults == [k \in 1..Len(pool.chunk) |-> ResultOf(pool.chunk[k])]

\* the first exception of the tasks of the chunk, which pasync.get() raises
FirstRaised ==
    LET k == CHOOSE k \in 1..Len(pool.chunk) :
                /\ MapResults[k].raised # "none"
                /\ \A j \in 1..(k - 1) : MapResults[j].raised = "none"
    IN  MapResults[k].raised

\* multiprocessChunks, second half, and reward_agents += reward_chunks
\* (lines 1066-1073 and 624-628)
CollectRewards ==
    /\ pc = "wait"
    /\ pool.function = "runAgentsGeneticSingleRun"
    /\ Pending = {}
    /\ IF \E k \in 1..Len(pool.chunk) : MapResults[k].raised # "none"
       THEN /\ Raise(FirstRaised)
            /\ UNCHANGED reward_agents
       ELSE /\ reward_agents' = reward_agents \o
                    [k \in 1..Len(pool.chunk) |-> MapResults[k].r]
            /\ pc' = "chunks"
            /\ UNCHANGED raised
    /\ pool' = NoPool
    /\ UNCHANGED <<diskVars, settingVars, envSettings, printed, loopVars,
                   currentGame, chunksTotal, reward_agentsMean, rankVars,
                   parentVars, noveltyVars, restarts>>

\* a variant that takes the mean and dumps it after the first game
FinishGameOnce ==
    /\ pc = "chunks"
    /\ chunksTotal = <<>>
    /\ LET total == [i \in 1..Len(agentCounts) |->
                        reward_agentsMean[i] + reward_agents[i]]
       IN  /\ reward_agentsMean' = total
           /\ rewards' = Val(DivideVector(total, NGAMESAVERAGED))
           /\ agentsRewardsMean' = [agentsRewardsMean EXCEPT
                   ![tempModelPrefix] = File(DivideVector(total, NGAMESAVERAGED))]
           /\ pc' = "rank"
    /\ UNCHANGED <<agentModels, agentResults, agentsSortedParentIndexes,
                   noveltyArchiveFile, agentBest, bestAgentSaved, settingVars,
                   envSettings, raised, printed, loopVars, currentGame,
                   chunksTotal, reward_agents, bestAgentReward,
                   sortedParentIdxs, selfSortedParentIdxs, parentVars,
                   noveltyVars, pool, restarts>>

\* the return of runAgentsGenetic and the rest of the loop body of
\* runAgentsRepeatedlyGenetic (lines 630, 717-719); after the last game the
\* mean and its dump (lines 720-727)
FinishGame ==
    /\ pc = "chunks"
    /\ chunksTotal = <<>>
    /\ LET total == [i \in 1..Len(agentCounts) |->
                        reward_agentsMean[i] + reward_agents[i]]
       IN  IF currentGame < NGAMESAVERAGED
           THEN /\ reward_agentsMean' = total
                /\ pc' = "nextgame"
                /\ UNCHANGED <<rewards, agentsRewardsMean>>
           ELSE /\ reward_agentsMean' = total
                /\ rewards' = Val(DivideVector(total, NGAMESAVERAGED))
                /\ agentsRewardsMean' = [agentsRewardsMean EXCEPT
                        ![tempModelPrefix] = File(DivideVector(total, NGAMESAVERAGED))]
                /\ pc' = "rank"
    /\ UNCHANGED <<agentModels, agentResults, agentsSortedParentIndexes,
                   noveltyArchiveFile, agentBest, bestAgentSaved, settingVars,
                   envSettings, raised, printed, loopVars, currentGame,
                   chunksTotal, reward_agents, bestAgentReward,
                   sortedParentIdxs, selfSortedParentIdxs, parentVars,
                   noveltyVars, pool, restarts>>


\* -------------------------------------------------------------- selection
\* a variant that keeps the ranking in memory and does not dump it
RankAgentsInMemory ==
    /\ pc = "rank"
    /\ LET sorted == ArgSortDescendingTop(rewards[1], NAGENTELITES)
       IN  /\ sortedParentIdxs' = Val(sorted)
           /\ bestAgentReward' = Val(rewards[1][sorted[1] + 1])
    /\ pc' = "novelty"
    /\ UNCHANGED <<diskVars, settingVars, envSettings, raised, printed,
                   loopVars, evalVars, rewards, selfSortedParentIdxs,
                   parentVars, noveltyVars, pool, restarts>>

\* lines 270-276: the parents by reward, the best reward, the dump of the
\* ranking
RankAgents ==
    /\ pc = "rank"
    /\ LET sorted == ArgSortDescendingTop(rewards[1], NAGENTELITES)
       IN  /\ sortedParentIdxs' = Val(sorted)
           /\ bestAgentReward' = Val(rewards[1][sorted[1] + 1])
           /\ agentsSortedParentIndexes' = [agentsSortedParentIndexes EXCEPT
                    ![tempModelPrefix] = File(sorted)]
    /\ pc' = "novelty"
    /\ UNCHANGED <<agentModels, agentResults, agentsRewardsMean,
                   noveltyArchiveFile, agentBest, bestAgentSaved, settingVars,
                   envSettings, raised, printed, loopVars, evalVars, rewards,
                   selfSortedParentIdxs, parentVars, noveltyVars, pool,
                   restarts>>

\* ---------------------------------------------------------- novelty search
\* a variant with line 1003 enabled: the difference of the lengths counts
actionNoveltyMetricWithLengths(actions1, actions2) ==
    LET shorterObj == IF Len(actions1) > Len(actions2) THEN actions2 ELSE actions1
        longerObj == IF Len(actions1) > Len(actions2) THEN actions1 ELSE actions2
        diffsCount == Len(shorterObj) - Cardinality(
            {i \in 1..Len(shorterObj) : shorterObj[i] = longerObj[i]})
    IN  Frac(diffsCount + (Len(longerObj) - Len(shorterObj)), Len(shorterObj))

\* actionNoveltyMetric(actions1, actions2); both lists hold an action or more
actionNoveltyMetric(actions1, actions2) ==
    LET shorterObj == IF Len(actions1) > Len(actions2) THEN actions2 ELSE actions1
        longerObj == IF Len(actions1) > Len(actions2) THEN actions1 ELSE actions2
        diffsCount == Len(shorterObj) - Cardinality(
            {i \in 1..Len(shorterObj) : shorterObj[i] = longerObj[i]})
    IN  Frac(diffsCount, Len(shorterObj))

\* calculateNoveltyPerPair([iAgent, iAgent2]) on an archive
calculateNoveltyPerPair(archive, iAgent, iAgent2) ==
    LET actions == archive[iAgent + 1].actions
        actions2 == archive[iAgent2 + 1].actions
    IN  FracSum([g \in 1..Len(actions) |->
            actionNoveltyMetric(actions[g], actions2[g])])

\* calculateNoveltyPerAgent(iAgent) on an archive of itemCount items
calculateNoveltyPerAgent(archive, itemCount, iAgent) ==
    LET others == [j \in 1..(itemCount - 1) |-> IF j - 1 < iAgent THEN j - 1 ELSE j]
    IN  FracMean([j \in 1..Len(others) |->
            calculateNoveltyPerPair(archive, iAgent, others[j])])

\* a variant that hands out the next id at every lookup, seen or not
UniqueIDOfCounter(mapping, key) == Len(mapping)

\* self.actionsUniqueIDMapping[key] of the defaultdict(count().__next__): the
\* id of a key, and the keys after the lookup
UniqueIDOf(mapping, key) ==
    IF \E k \in 1..Len(mapping) : mapping[k] = key
    THEN (CHOOSE k \in 1..Len(mapping) : mapping[k] = key) - 1
    ELSE Len(mapping)

MappingAfterLookup(mapping, key) ==
    IF \E k \in 1..Len(mapping) : mapping[k] = key THEN mapping
    ELSE Append(mapping, key)

InSeq(x, s) == \E k \in 1..Len(s) : s[k] = x

\* one turn of the loop of lines 282-306 for agent iAgent of the generation,
\* on nv = [archive, itemCount, unique, uniqueIDs, duplicate, mapping]
StoreAgent(nv, generation, iAgent, actions) ==
    LET k == nv.itemCount
        actionsAll == Flatten(actions)
        actionsUniqueID == UniqueIDOf(nv.mapping, actionsAll)
        isNew == ~InSeq(actionsUniqueID, nv.uniqueIDs)
    IN  [archive |-> Append(nv.archive,
            [itemID |-> k, modelFile |-> <<generation, iAgent + 1>>,
             actions |-> actions, actionsUniqueID |-> actionsUniqueID,
             novelty |-> Undef]),
         itemCount |-> k + 1,
         unique |-> IF isNew THEN Append(nv.unique, k) ELSE nv.unique,
         uniqueIDs |-> IF isNew THEN Append(nv.uniqueIDs, actionsUniqueID)
                       ELSE nv.uniqueIDs,
         duplicate |-> IF isNew THEN nv.duplicate ELSE Append(nv.duplicate, k),
         mapping |-> MappingAfterLookup(nv.mapping, actionsAll)]

RECURSIVE StoreAgents(_, _, _, _)
StoreAgents(nv, generation, iAgent, results) ==
    IF iAgent = NAGENTS THEN nv
    ELSE StoreAgents(StoreAgent(nv, generation, iAgent, results[iAgent + 1][1]),
                     generation, iAgent + 1, results)

\* lines 313-320: the novelty of every unique agent, chunk by chunk on the
\* pool, in the order of agentsUnique
NoveltiesUniqueAgents(archive, itemCount, unique) ==
    [j \in 1..Len(unique) |-> calculateNoveltyPerAgent(archive, itemCount, unique[j])]

\* lines 321-333: every unique and every duplicate agent takes the entry of
\* noveltiesUniqueAgents at its actionsUniqueID
AssignNovelties(archive, noveltiesUniqueAgents, unique, duplicate) ==
    [k \in 1..Len(archive) |->
        IF InSeq(k - 1, unique) \/ InSeq(k - 1, duplicate)
        THEN [archive[k] EXCEPT !.novelty =
                Val(noveltiesUniqueAgents[archive[k].actionsUniqueID + 1])]
        ELSE archive[k]]

\* the lists of lines 337-343 (and 769-775, 944-950) over the first
\* itemCount items of an archive
NoveltiesOf(archive, itemCount) ==
    [k \in 1..itemCount |-> archive[k].novelty[1]]
NoveltyFilenamesOf(archive, itemCount) ==
    [k \in 1..itemCount |-> archive[k].modelFile]

\* lines 278-345; `if self.noveltySearch` raises when runGenetic was called
\* without novelty search, as the attribute is assigned in line 224 only
NoveltySearch ==
    /\ pc = "novelty"
    /\ IF noveltySearch = Undef
       THEN /\ Raise("AttributeError: noveltySearch")
            /\ UNCHANGED <<noveltyArchiveFile, noveltyVars>>
       ELSE LET nv == StoreAgents(
                    [archive |-> noveltyArchive[1], itemCount |-> noveltyItemCount[1],
                     unique |-> agentsUnique, uniqueIDs |-> agentsUniqueIDs,
                     duplicate |-> agentsDuplicate, mapping |-> actionsUniqueIDMapping],
                    tempModelPrefix, 0, agentResults[tempModelPrefix])
                noveltiesUniqueAgents ==
                    NoveltiesUniqueAgents(nv.archive, nv.itemCount, nv.unique)
                archive == AssignNovelties(nv.archive, noveltiesUniqueAgents,
                                           nv.unique, nv.duplicate)
            IN  /\ noveltyArchive' = Val(archive)
                /\ noveltyItemCount' = Val(nv.itemCount)
                /\ agentsUnique' = nv.unique
                /\ agentsUniqueIDs' = nv.uniqueIDs
                /\ agentsDuplicate' = nv.duplicate
                /\ actionsUniqueIDMapping' = nv.mapping
                /\ noveltyArchiveFile' = [noveltyArchiveFile EXCEPT
                        ![tempModelPrefix] = File(archive)]
                /\ novelties' = Val(NoveltiesOf(archive, nv.itemCount))
                /\ noveltyFilenames' = Val(NoveltyFilenamesOf(archive, nv.itemCount))
                /\ pc' = "children"
                /\ UNCHANGED <<raised, noveltySearch>>
    /\ UNCHANGED <<agentModels, agentResults, agentsRewardsMean,
                   agentsSortedParentIndexes, agentBest, bestAgentSaved,
                   settingVars, envSettings, printed, loopVars, evalVars,
                   rankVars, parentVars, pool, restarts>>


\* ------------------------------------------------------------ reproduction
\* the local variable generation of returnChildrenGenetic and of
\* returnChildrenGeneticSingleRun (lines 744-754, 814-817)
GenerationOfChildren ==
    IF rereturnChildrenGenetic THEN geneticGeneration ELSE geneticGeneration + 1

\* the argument of returnChildrenGenetic: the local ranking of runGenetic
\* (line 348), or self.sortedParentIdxs in resumeGenetic (line 957)
SortedParentIdxsArgument ==
    IF rereturnChildrenGenetic THEN selfSortedParentIdxs ELSE sortedParentIdxs

\* a variant that takes the last of the parents: sortedParentIdxs[-1]
LastParentIdx(sorted) == sorted[Len(sorted)]

\* sortedParentIdxs[0]: the index of the best agent (lines 779-781, 787-788)
BestParentIdx(sorted) == sorted[1]

\* a variant that puts the best agent one slot earlier
SlotBeforeLast == NAGENTS - 1

\* the slot the best agent takes in the next generation (line 787)
EliteSlot == NAGENTS

\* returnChildrenGenetic up to the saving of the best agent (lines 744-784).
\* It is entered with the prefixes of the generation of the loop; when the
\* children are returned again on resume the prefixes move one generation
\* back and the rewards are those of the file.
returnChildrenGenetic ==
    /\ pc = "children"
    /\ LET prefix == IF rereturnChildrenGenetic THEN geneticGeneration
                     ELSE tempModelPrefix
           nextPrefix == IF rereturnChildrenGenetic THEN tempModelPrefix
                         ELSE tempNextModelPrefix
           recalculateNovelties == novelties = Undef \/ Len(novelties[1]) = 0
           noveltiesNow == IF recalculateNovelties
                           THEN NoveltiesOf(noveltyArchive[1], noveltyItemCount[1])
                           ELSE novelties[1]
           best == BestParentIdx(SortedParentIdxsArgument[1])
       IN  IF rereturnChildrenGenetic /\ agentsRewardsMean[prefix] = NoFile
           THEN /\ Raise("No such file")
                /\ UNCHANGED <<tempModelPrefix, tempNextModelPrefix, rewards,
                               novelties, noveltyFilenames,
                               candidateNoveltyParentIdxs, agentBest>>
           ELSE IF noveltySearch = Undef \/ novelties = Undef
           THEN /\ Raise("AttributeError")
                /\ UNCHANGED <<tempModelPrefix, tempNextModelPrefix, rewards,
                               novelties, noveltyFilenames,
                               candidateNoveltyParentIdxs, agentBest>>
           ELSE /\ tempModelPrefix' = prefix
                /\ tempNextModelPrefix' = nextPrefix
                /\ rewards' = IF rereturnChildrenGenetic
                              THEN Val(agentsRewardsMean[prefix][1]) ELSE rewards
                /\ novelties' = Val(noveltiesNow)
                /\ noveltyFilenames' =
                        IF recalculateNovelties
                        THEN Val(NoveltyFilenamesOf(noveltyArchive[1],
                                                    noveltyItemCount[1]))
                        ELSE noveltyFilenames
                /\ candidateNoveltyParentIdxs' =
                        Val(ArgSortDescendingTop(noveltiesNow, NNOVELTYELITES))
                /\ IF agentModels[prefix][best + 1] = NoFile
                   THEN /\ Raise("No such file")
                        /\ UNCHANGED agentBest
                   ELSE /\ agentBest' =
                                IF rereturnChildrenGenetic THEN agentBest
                                ELSE [agentBest EXCEPT ![prefix] =
                                        agentModels[prefix][best + 1]]
                        /\ pc' = "elite"
                        /\ UNCHANGED raised
    /\ UNCHANGED <<agentModels, agentResults, agentsRewardsMean,
                   agentsSortedParentIndexes, noveltyArchiveFile,
                   bestAgentSaved, settingVars, envSettings, printed,
                   geneticGeneration, rereturnChildrenGenetic, evalVars,
                   bestAgentReward, sortedParentIdxs, selfSortedParentIdxs,
                   candidateParentIdxs, noveltySearch, noveltyArchive,
                   noveltyItemCount, agentsUnique, agentsUniqueIDs,
                   agentsDuplicate, actionsUniqueIDMapping, pool, restarts>>

\* lines 785-792: the best agent goes unchanged into the last slot of the
\* next generation, and the children are chunked
SaveElite ==
    /\ pc = "elite"
    /\ IF GenerationOfChildren < NGENERATIONS
       THEN /\ agentModels' = [agentModels EXCEPT
                    ![GenerationOfChildren + 1][EliteSlot] =
                        agentModels[tempModelPrefix][
                            BestParentIdx(SortedParentIdxsArgument[1]) + 1]]
            /\ candidateParentIdxs' =
                    Val(Take(SortedParentIdxsArgument[1], NAGENTELITES))
            /\ chunksTotal' = yieldChunks(arange(NAGENTS - 1),
                    NAGENTSPARALLEL * maxTasksPerWorkerMutate)
       ELSE /\ chunksTotal' = <<>>
            /\ UNCHANGED <<agentModels, candidateParentIdxs>>
    /\ pc' = "childchunks"
    /\ UNCHANGED <<agentResults, agentsRewardsMean, agentsSortedParentIndexes,
                   noveltyArchiveFile, agentBest, bestAgentSaved, settingVars,
                   envSettings, raised, printed, loopVars, currentGame,
                   reward_agents, reward_agentsMean, rankVars,
                   candidateNoveltyParentIdxs, noveltyVars, pool, restarts>>

SubmitChildren ==
    /\ pc = "childchunks"
    /\ SubmitChunk("returnChildrenGeneticSingleRun")
    /\ UNCHANGED <<diskVars, settingVars, envSettings, raised, printed,
                   loopVars, currentGame, reward_agents, reward_agentsMean,
                   rankVars, parentVars, noveltyVars, restarts>>

\* whether the child takes its parent from the novelty parents (lines 811-823)
IsNoveltySlot(childIdx) ==
    /\ ((geneticGeneration + 1) % hyParams.ADDNOVELTYEVERY) = 0
    /\ NAGENTS - (childIdx + 1) <= NNOVELTYELITES

\* the file of the parent of a child: <<generation, slot>> (lines 806-830)
ParentFile(childIdx) ==
    IF IsNoveltySlot(childIdx)
    THEN noveltyFilenames[1][
            candidateNoveltyParentIdxs[1][NAGENTS - (childIdx + 1)] + 1]
    ELSE <<tempModelPrefix,
           candidateParentIdxs[1][randint(Len(candidateParentIdxs[1]),
                envSettings.SEEDAGENT, childIdx) + 1] + 1>>

\* returnChildrenGeneticSingleRun(childIdx) on a worker, once the file of
\* the parent can be loaded
returnChildrenGeneticSingleRun(childIdx) ==
    /\ pc = "wait"
    /\ pool.function = "returnChildrenGeneticSingleRun"
    /\ childIdx \in Running
    /\ childIdx \notin pool.asleep
    /\ LET agentPth == ParentFile(childIdx)
           file == agentModels[agentPth[1]][agentPth[2]]
       IN  /\ file # NoFile
           /\ agentModels' = [agentModels EXCEPT
                    ![tempNextModelPrefix][childIdx + 1] =
                        File(mutateGenetic(file[1], hyParams.MUTATIONPROBABILITY,
                                           envSettings.SEEDAGENT, childIdx))]
    /\ pool' = [pool EXCEPT !.finished = Append(@,
            [arg |-> childIdx, raised |-> "none", r |-> 0])]
    /\ UNCHANGED <<agentResults, agentsRewardsMean, agentsSortedParentIndexes,
                   noveltyArchiveFile, agentBest, bestAgentSaved, settingVars,
                   envSettings, pc, raised, printed, loopVars, evalVars,
                   rankVars, parentVars, noveltyVars, restarts>>

\* the loop of lines 834-843 while the file of the parent cannot be loaded:
\* load_model raises, the worker prints and goes to sleep (lines 840-843)
RetryLoadingParent(childIdx) ==
    /\ pc = "wait"
    /\ pool.function = "returnChildrenGeneticSingleRun"
    /\ childIdx \in Running
    /\ childIdx \notin pool.asleep
    /\ LET agentPth == ParentFile(childIdx)
       IN  agentModels[agentPth[1]][agentPth[2]] = NoFile
    /\ printed' = printed \cup {"Retrying loading parent agent, possibly due to lock."}
    /\ pool' = [pool EXCEPT !.asleep = @ \cup {childIdx}]
    /\ UNCHANGED <<diskVars, settingVars, envSettings, pc, raised, loopVars,
                   evalVars, rankVars, parentVars, noveltyVars, restarts>>

\* sleep(1) returns and `while not success` takes the worker back to
\* load_model (lines 835-837, 843)
LoadParentAgain(childIdx) ==
    /\ pc = "wait"
    /\ pool.function = "returnChildrenGeneticSingleRun"
    /\ childIdx \in pool.asleep
    /\ pool' = [pool EXCEPT !.asleep = @ \ {childIdx}]
    /\ UNCHANGED <<diskVars, settingVars, envSettings, pc, raised, printed,
                   loopVars, evalVars, rankVars, parentVars, noveltyVars,
                   restarts>>

\* multiprocessChunks, second half, for a chunk of children
CollectChildren ==
    /\ pc = "wait"
    /\ pool.function = "returnChildrenGeneticSingleRun"
    /\ Pending = {}
    /\ pool' = NoPool
    /\ pc' = "childchunks"
    /\ UNCHANGED <<diskVars, settingVars, envSettings, raised, printed,
                   loopVars, evalVars, rankVars, parentVars, noveltyVars,
                   restarts>>

\* the end of returnChildrenGenetic (lines 797-800) once every chunk is done
FinishReturnChildren ==
    /\ pc = "childchunks"
    /\ chunksTotal = <<>>
    /\ IF rereturnChildrenGenetic
       THEN /\ tempModelPrefix' = geneticGeneration + 1
            /\ tempNextModelPrefix' = geneticGeneration + 2
            /\ pc' = "resumed"
       ELSE /\ pc' = "savebest"
            /\ UNCHANGED <<tempModelPrefix, tempNextModelPrefix>>
    /\ UNCHANGED <<diskVars, settingVars, envSettings, raised, printed,
                   geneticGeneration, rereturnChildrenGenetic, evalVars,
                   rankVars, parentVars, noveltyVars, pool, restarts>>

\* lines 349-359: the novelties are printed and saveBestAgent copies the best
\* agent to models/
SaveBestAgent ==
    /\ pc = "savebest"
    /\ IF geneticGeneration + 1 >= hyParams.ADDNOVELTYEVERY /\ novelties = Undef
       THEN /\ Raise("AttributeError")
            /\ UNCHANGED bestAgentSaved
       ELSE /\ bestAgentSaved' = [bestAgentSaved EXCEPT
                    ![geneticGeneration + 1] = agentBest[tempModelPrefix]]
            /\ pc' = "cleanup"
            /\ UNCHANGED raised
    /\ UNCHANGED <<agentModels, agentResults, agentsRewardsMean,
                   agentsSortedParentIndexes, noveltyArchiveFile, agentBest,
                   settingVars, envSettings, printed, loopVars, evalVars,
                   rankVars, parentVars, noveltyVars, pool, restarts>>

\* a variant that removes the results of the agents with their models
EndGenerationWithResults ==
    /\ pc = "cleanup"
    /\ agentModels' =
            IF envSettings.KEEPMODELHISTORY THEN agentModels
            ELSE [agentModels EXCEPT ![tempModelPrefix] =
                    [agentIdx \in AgentSlots |-> NoFile]]
    /\ agentResults' =
            IF envSettings.KEEPMODELHISTORY THEN agentResults
            ELSE [agentResults EXCEPT ![tempModelPrefix] =
                    [agentIdx \in AgentSlots |-> NoFile]]
    /\ geneticGeneration' = geneticGeneration + 1
    /\ pc' = "loop"
    /\ UNCHANGED <<agentsRewardsMean, agentsSortedParentIndexes,
                   noveltyArchiveFile, agentBest, bestAgentSaved, settingVars,
                   envSettings, raised, printed, tempModelPrefix,
                   tempNextModelPrefix, rereturnChildrenGenetic, evalVars,
                   rankVars, parentVars, noveltyVars, pool, restarts>>

\* lines 365-370 and the step of the loop: without KEEPMODELHISTORY the
\* models of the agents of the finished generation are removed
EndGeneration ==
    /\ pc = "cleanup"
    /\ agentModels' =
            IF envSettings.KEEPMODELHISTORY THEN agentModels
            ELSE [agentModels EXCEPT ![tempModelPrefix] =
                    [agentIdx \in AgentSlots |-> NoFile]]
    /\ geneticGeneration' = geneticGeneration + 1
    /\ pc' = "loop"
    /\ UNCHANGED <<agentResults, agentsRewardsMean, agentsSortedParentIndexes,
                   noveltyArchiveFile, agentBest, bestAgentSaved, settingVars,
                   envSettings, raised, printed, tempModelPrefix,
                   tempNextModelPrefix, rereturnChildrenGenetic, evalVars,
                   rankVars, parentVars, noveltyVars, pool, restarts>>


\* ------------------------------------------------------------------ resume
\* lines 239-244 of the head of the loop in a resumed run: the archive of
\* the generation before and its length, when there is such a generation
ArchiveOnResume ==
    IF geneticGeneration > 0
    THEN noveltyArchiveFile[geneticGeneration]
    ELSE File(noveltyArchive[1])

\* the reads of lines 240-244 that raise: self.noveltySearch was never set,
\* or the archive of the generation before is not on disk
ResumeRaises ==
    IF noveltySearch = Undef THEN "AttributeError: noveltySearch"
    ELSE IF ArchiveOnResume = NoFile THEN "No such file"
    ELSE "none"

ResumeHead ==
    /\ pc = "loop"
    /\ geneticGeneration < NGENERATIONS
    /\ envSettings.RESUME

\* a variant that looks for the best agent of the generation after
BestAgentOfNextExists(generation) ==
    generation < NGENERATIONS /\ agentBest[generation + 1] # NoFile

\* exists(tempModelPrefix + '_agentBest.h5') of resumeGenetic (lines 934-935)
BestAgentExists(generation) == agentBest[generation] # NoFile

\* a variant that takes the history of the models to be there
ModelHistoryAssumed == TRUE

\* self.envSettings['KEEPMODELHISTORY'] of resumeGenetic (line 953)
ModelHistoryKept == envSettings.KEEPMODELHISTORY

\* the head of the loop of a resumed run raises (lines 240-244)
ResumeFails ==
    /\ ResumeHead
    /\ ResumeRaises # "none"
    /\ Raise(ResumeRaises)
    /\ tempModelPrefix' = geneticGeneration + 1
    /\ tempNextModelPrefix' = geneticGeneration + 2
    /\ UNCHANGED <<diskVars, settingVars, envSettings, printed,
                   geneticGeneration, rereturnChildrenGenetic, evalVars,
                   rankVars, parentVars, noveltyVars, pool, restarts>>

\* resumeGenetic when the best agent of the generation is on disk (lines
\* 934-950), and the `continue` of line 246
ResumeSkipGeneration ==
    /\ ResumeHead
    /\ ResumeRaises = "none"
    /\ BestAgentExists(geneticGeneration + 1)
    /\ tempModelPrefix' = geneticGeneration + 1
    /\ tempNextModelPrefix' = geneticGeneration + 2
    /\ LET itemCount == Len(ArchiveOnResume[1])
           generation == geneticGeneration + 1
       IN  IF \/ agentsSortedParentIndexes[generation] = NoFile
              \/ noveltyArchiveFile[generation] = NoFile
           THEN /\ Raise("No such file")
                /\ UNCHANGED <<geneticGeneration, selfSortedParentIdxs,
                               noveltyArchive, noveltyItemCount, novelties,
                               noveltyFilenames>>
           ELSE /\ selfSortedParentIdxs' =
                        Val(agentsSortedParentIndexes[generation][1])
                /\ noveltyArchive' = noveltyArchiveFile[generation]
                /\ noveltyItemCount' = Val(itemCount)
                /\ novelties' = Val(NoveltiesOf(
                        noveltyArchiveFile[generation][1], itemCount))
                /\ noveltyFilenames' = Val(NoveltyFilenamesOf(
                        noveltyArchiveFile[generation][1], itemCount))
                /\ geneticGeneration' = geneticGeneration + 1
                /\ UNCHANGED <<pc, raised>>
    /\ UNCHANGED <<diskVars, settingVars, envSettings, printed,
                   rereturnChildrenGenetic, evalVars, rewards,
                   bestAgentReward, sortedParentIdxs, parentVars,
                   noveltySearch, agentsUnique, agentsUniqueIDs,
                   agentsDuplicate, actionsUniqueIDMapping, pool, restarts>>

\* resumeGenetic when the best agent of the generation is not on disk and
\* the history of the models was kept (lines 953-957): the children of the
\* generation before are returned again
ResumeRereturnChildren ==
    /\ ResumeHead
    /\ ResumeRaises = "none"
    /\ ~BestAgentExists(geneticGeneration + 1)
    /\ ModelHistoryKept
    /\ tempModelPrefix' = geneticGeneration + 1
    /\ tempNextModelPrefix' = geneticGeneration + 2
    /\ noveltyArchive' = ArchiveOnResume
    /\ noveltyItemCount' = Val(Len(ArchiveOnResume[1]))
    /\ rereturnChildrenGenetic' = TRUE
    /\ IF selfSortedParentIdxs = Undef
       THEN Raise("AttributeError: sortedParentIdxs")
       ELSE /\ pc' = "children"
            /\ UNCHANGED raised
    /\ UNCHANGED <<diskVars, settingVars, envSettings, printed,
                   geneticGeneration, evalVars, rankVars, parentVars,
                   noveltySearch, agentsUnique, agentsUniqueIDs,
                   agentsDuplicate, actionsUniqueIDMapping, novelties,
                   noveltyFilenames, pool, restarts>>

\* resumeGenetic when the best agent of the generation is not on disk and
\* the history of the models was not kept (lines 959-965), and the `break`
\* of line 247
ResumeMissingHistory ==
    /\ ResumeHead
    /\ ResumeRaises = "none"
    /\ ~BestAgentExists(geneticGeneration + 1)
    /\ ~ModelHistoryKept
    /\ tempModelPrefix' = geneticGeneration + 1
    /\ tempNextModelPrefix' = geneticGeneration + 2
    /\ noveltyArchive' = ArchiveOnResume
    /\ noveltyItemCount' = Val(Len(ArchiveOnResume[1]))
    /\ printed' = printed \cup {"Resuming impossible with missing model history."}
    /\ envSettings' = [envSettings EXCEPT !.RESUME = FALSE]
    /\ IF selfSortedParentIdxs = Undef
       THEN Raise("AttributeError: sortedParentIdxs")
       ELSE /\ pc' = "returned"
            /\ UNCHANGED raised
    /\ UNCHANGED <<diskVars, settingVars, geneticGeneration,
                   rereturnChildrenGenetic, evalVars, rankVars, parentVars,
                   noveltySearch, agentsUnique, agentsUniqueIDs,
                   agentsDuplicate, actionsUniqueIDMapping, novelties,
                   noveltyFilenames, pool, restarts>>

\* a variant that takes every item of the archive for a unique agent
RestoreAgentAsUnique(nv, iAgent, actions) ==
    LET actionsAll == Flatten(actions)
        actionsUniqueID == UniqueIDOf(nv.mapping, actionsAll)
    IN  [archive |-> [nv.archive EXCEPT ![iAgent + 1].actionsUniqueID =
                            actionsUniqueID],
         itemCount |-> nv.itemCount,
         unique |-> Append(nv.unique, iAgent),
         uniqueIDs |-> Append(nv.uniqueIDs, actionsUniqueID),
         duplicate |-> nv.duplicate,
         mapping |-> MappingAfterLookup(nv.mapping, actionsAll)]

\* one turn of the loop of lines 252-266 for item iAgent of the archive
RestoreAgent(nv, iAgent, actions) ==
    LET actionsAll == Flatten(actions)
        actionsUniqueID == UniqueIDOf(nv.mapping, actionsAll)
        isNew == ~InSeq(actionsUniqueID, nv.uniqueIDs)
    IN  [archive |-> [nv.archive EXCEPT ![iAgent + 1].actionsUniqueID =
                            actionsUniqueID],
         itemCount |-> nv.itemCount,
         unique |-> IF isNew THEN Append(nv.unique, iAgent) ELSE nv.unique,
         uniqueIDs |-> IF isNew THEN Append(nv.uniqueIDs, actionsUniqueID)
                       ELSE nv.uniqueIDs,
         duplicate |-> IF isNew THEN nv.duplicate ELSE Append(nv.duplicate, iAgent),
         mapping |-> MappingAfterLookup(nv.mapping, actionsAll)]

RECURSIVE RestoreAgents(_, _)
RestoreAgents(nv, iAgent) ==
    IF iAgent = nv.itemCount THEN nv
    ELSE LET modelFile == nv.archive[iAgent + 1].modelFile
         IN  RestoreAgents(RestoreAgent(nv, iAgent,
                    agentResults[modelFile[1]][modelFile[2]][1]), iAgent + 1)

\* the return of resumeGenetic after the children were returned again (lines
\* 958-965) and the lists of unique and duplicate agents (lines 249-266)
FinishResume ==
    /\ pc = "resumed"
    /\ rereturnChildrenGenetic' = FALSE
    /\ envSettings' = [envSettings EXCEPT !.RESUME = FALSE]
    /\ LET nv == RestoreAgents(
                [archive |-> noveltyArchive[1], itemCount |-> noveltyItemCount[1],
                 unique |-> agentsUnique, uniqueIDs |-> agentsUniqueIDs,
                 duplicate |-> agentsDuplicate, mapping |-> actionsUniqueIDMapping],
                0)
       IN  /\ noveltyArchive' = Val(nv.archive)
           /\ agentsUnique' = nv.unique
           /\ agentsUniqueIDs' = nv.uniqueIDs
           /\ agentsDuplicate' = nv.duplicate
           /\ actionsUniqueIDMapping' = nv.mapping
    /\ pc' = "evaluate"
    /\ UNCHANGED <<diskVars, settingVars, raised, printed, geneticGeneration,
                   tempModelPrefix, tempNextModelPrefix, evalVars, rankVars,
                   parentVars, noveltySearch, noveltyItemCount, novelties,
                   noveltyFilenames, pool, restarts>>

\* The process is stopped, wherever it is, and started again with RESUME set:
\* the constructor reads the hyperparameters back and runGenetic is called
\* with the arguments of the first start.  The files stay as they are.
Restart ==
    /\ restarts < MaxRestarts
    /\ restarts' = restarts + 1
    /\ envSettings' = [envSettings EXCEPT !.RESUME = TRUE]
    /\ pc' = "loop"
    /\ raised' = "none"
    /\ printed' = {}
    /\ geneticGeneration' = 0
    /\ tempModelPrefix' = 0
    /\ tempNextModelPrefix' = 0
    /\ rereturnChildrenGenetic' = FALSE
    /\ currentGame' = 0
    /\ chunksTotal' = <<>>
    /\ reward_agents' = <<>>
    /\ reward_agentsMean' = <<>>
    /\ rewards' = Undef
    /\ bestAgentReward' = Undef
    /\ sortedParentIdxs' = Undef
    /\ selfSortedParentIdxs' = Undef
    /\ candidateParentIdxs' = Undef
    /\ candidateNoveltyParentIdxs' = Undef
    /\ noveltySearch' = IF noveltySearchArg THEN Val(TRUE) ELSE Undef
    /\ noveltyArchive' = IF noveltySearchArg THEN Val(<<>>) ELSE Undef
    /\ noveltyItemCount' = IF noveltySearchArg THEN Val(0) ELSE Undef
    /\ agentsUnique' = <<>>
    /\ agentsUniqueIDs' = <<>>
    /\ agentsDuplicate' = <<>>
    /\ actionsUniqueIDMapping' = <<>>
    /\ novelties' = Undef
    /\ noveltyFilenames' = Undef
    /\ pool' = NoPool
    /\ UNCHANGED <<diskVars, settingVars>>

\* ------------------------------------------------------ the specifications
Evaluate ==
    \/ BeginGame
    \/ SubmitRollouts
    \/ \E agentCount \in 0..(NAGENTS - 1) : runAgentsGeneticSingleRun(agentCount)
    \/ CollectRewards
    \/ FinishGame

Reproduce ==
    \/ returnChildrenGenetic
    \/ SaveElite
    \/ SubmitChildren
    \/ \E childIdx \in 0..(NAGENTS - 2) : returnChildrenGeneticSingleRun(childIdx)
    \/ \E childIdx \in 0..(NAGENTS - 2) : RetryLoadingParent(childIdx)
    \/ \E childIdx \in 0..(NAGENTS - 2) : LoadParentAgain(childIdx)
    \/ CollectChildren
    \/ FinishReturnChildren

Resume ==
    \/ ResumeFails
    \/ ResumeSkipGeneration
    \/ ResumeRereturnChildren
    \/ ResumeMissingHistory
    \/ FinishResume

\* a run of runGenetic that nothing interrupts
Run ==
    \/ StartGeneration
    \/ Evaluate
    \/ RankAgents
    \/ NoveltySearch
    \/ Reproduce
    \/ SaveBestAgent
    \/ EndGeneration
    \/ FinishRun

Next == Run \/ Resume \/ Restart

Spec == Init /\ [][Next]_vars

\* The operating system lets the workers of the pool of the reproduction
\* run, and the coordinating process that waits for them: a worker goes on
\* with the task it holds, a sleep of a second ends, and pasync.get() returns
\* once every task is done.  A stop of the process (Restart) may or may not
\* happen.
Scheduling ==
    /\ WF_vars(CollectChildren)
    /\ \A childIdx \in 0..(NAGENTS - 2) :
            /\ WF_vars(returnChildrenGeneticSingleRun(childIdx))
            /\ WF_vars(RetryLoadingParent(childIdx))
            /\ WF_vars(LoadParentAgain(childIdx))

FairSpec == Init /\ [][Next]_vars /\ Scheduling

\* ------------------------------------------- the novelty of a given archive
\* longest list of actions of a behaviour that is given to the metric
MaxActions == 3

\* the lists of 1..MaxActions actions
ActionLists ==
    UNION {[1..n -> {actionSpace[k] : k \in 1..Len(actionSpace)}] : n \in 1..MaxActions}

\* The novelty functions on an archive of two agents of one game each, with
\* any two lists of actions: the state of runGenetic after the loop of lines
\* 282-306 has stored the two agents.
ArchiveInit ==
    /\ envSettings = [RESUME |-> FALSE, KEEPMODELHISTORY |-> TRUE,
                       SEEDAGENT |-> 0, SEEDENV |-> 0]
    /\ hyParams = [ADDNOVELTYEVERY |-> 1,
                    MUTATIONPROBABILITY |-> CHOOSE q \in MutationProbabilities : TRUE]
    /\ maxTasksPerWorker = 1
    /\ noveltySearchArg = TRUE
    /\ agentModels = [g \in Generations |-> [i \in AgentSlots |->
            IF g = 1 THEN File(randomAgentGenetic(i - 1, envSettings.SEEDAGENT))
            ELSE NoFile]]
    /\ agentResults = [g \in Generations |-> [i \in AgentSlots |-> NoFile]]
    /\ agentsRewardsMean = NoFiles
    /\ agentsSortedParentIndexes = NoFiles
    /\ noveltyArchiveFile = NoFiles
    /\ agentBest = NoFiles
    /\ bestAgentSaved = NoFiles
    /\ restarts = 0
    /\ pc = "novelties"
    /\ raised = "none"
    /\ printed = {}
    /\ geneticGeneration = 0
    /\ tempModelPrefix = 1
    /\ tempNextModelPrefix = 2
    /\ rereturnChildrenGenetic = FALSE
    /\ currentGame = 1
    /\ chunksTotal = <<>>
    /\ reward_agents = <<>>
    /\ reward_agentsMean = <<>>
    /\ rewards = Undef
    /\ bestAgentReward = Undef
    /\ sortedParentIdxs = Undef
    /\ selfSortedParentIdxs = Undef
    /\ candidateParentIdxs = Undef
    /\ candidateNoveltyParentIdxs = Undef
    /\ noveltySearch = Val(TRUE)
    /\ novelties = Undef
    /\ noveltyFilenames = Undef
    /\ pool = NoPool
    /\ \E actions1, actions2 \in ActionLists :
            LET nv == StoreAgent(StoreAgent(
                        [archive |-> <<>>, itemCount |-> 0, unique |-> <<>>,
                         uniqueIDs |-> <<>>, duplicate |-> <<>>, mapping |-> <<>>],
                        1, 0, <<actions1>>), 1, 1, <<actions2>>)
            IN  /\ noveltyArchive = Val(nv.archive)
                /\ noveltyItemCount = Val(nv.itemCount)
                /\ agentsUnique = nv.unique
                /\ agentsUniqueIDs = nv.uniqueIDs
                /\ agentsDuplicate = nv.duplicate
                /\ actionsUniqueIDMapping = nv.mapping

\* lines 313-343 on that archive: the novelty of the unique agents, the
\* novelty of every entry, and the list of the novelties
UpdateNovelties ==
    /\ pc = "novelties"
    /\ LET noveltiesUniqueAgents ==
                NoveltiesUniqueAgents(noveltyArchive[1], noveltyItemCount[1],
                                      agentsUnique)
           archive == AssignNovelties(noveltyArchive[1], noveltiesUniqueAgents,
                                      agentsUnique, agentsDuplicate)
       IN  /\ noveltyArchive' = Val(archive)
           /\ novelties' = Val(NoveltiesOf(archive, noveltyItemCount[1]))
           /\ noveltyFilenames' = Val(NoveltyFilenamesOf(archive, noveltyItemCount[1]))
    /\ pc' = "scored"
    /\ UNCHANGED <<diskVars, settingVars, envSettings, raised, printed,
                   loopVars, evalVars, rankVars, parentVars, noveltySearch,
                   noveltyItemCount, agentsUnique, agentsUniqueIDs,
                   agentsDuplicate, actionsUniqueIDMapping, pool, restarts>>

ArchiveSpec == ArchiveInit /\ [][UpdateNovelties]_vars

\* ------------------------------------------- the children of a given parent
\* largest entry, in size, of a tensor of a parent that is given
MaxWeight == 1

\* the values of MUTATIONPROBABILITY, in tenths, a parent is mutated with
GivenMutationProbabilities == {0, 5, 10}

\* returnChildrenGeneticSingleRun on the workers for one parent of any
\* weights and any probability of mutation: the state of returnChildrenGenetic
\* in generation 1 when the chunk of children has been handed to the pool
\* (lines 785-795), with agent 1 as the only candidate
ReproductionInit ==
    /\ envSettings \in [RESUME : {FALSE}, KEEPMODELHISTORY : {TRUE},
                         SEEDAGENT : 0..MaxSeedAgent, SEEDENV : {0}]
    /\ hyParams \in [ADDNOVELTYEVERY : {2},
                      MUTATIONPROBABILITY : GivenMutationProbabilities]
    /\ maxTasksPerWorker = 1
    /\ noveltySearchArg = TRUE
    /\ \E parent \in [1..2 -> (0 - MaxWeight)..MaxWeight] :
            agentModels = [g \in Generations |-> [i \in AgentSlots |->
                IF g = 1 THEN File(parent)
                ELSE IF g = 2 /\ i = NAGENTS THEN File(parent)
                ELSE NoFile]]
    /\ agentResults = [g \in Generations |-> [i \in AgentSlots |-> NoFile]]
    /\ agentsRewardsMean = NoFiles
    /\ agentsSortedParentIndexes = NoFiles
    /\ noveltyArchiveFile = NoFiles
    /\ agentBest = [NoFiles EXCEPT ![1] = agentModels[1][1]]
    /\ bestAgentSaved = NoFiles
    /\ restarts = 0
    /\ pc = "wait"
    /\ raised = "none"
    /\ printed = {}
    /\ geneticGeneration = 0
    /\ tempModelPrefix = 1
    /\ tempNextModelPrefix = 2
    /\ rereturnChildrenGenetic = FALSE
    /\ currentGame = NGAMESAVERAGED
    /\ chunksTotal = <<>>
    /\ reward_agents = <<>>
    /\ reward_agentsMean = <<>>
    /\ rewards = Undef
    /\ bestAgentReward = Undef
    /\ sortedParentIdxs = Val(<<0>>)
    /\ selfSortedParentIdxs = Undef
    /\ candidateParentIdxs = Val(<<0>>)
    /\ candidateNoveltyParentIdxs = Undef
    /\ noveltySearch = Val(TRUE)
    /\ noveltyArchive = Val(<<>>)
    /\ noveltyItemCount = Val(0)
    /\ agentsUnique = <<>>
    /\ agentsUniqueIDs = <<>>
    /\ agentsDuplicate = <<>>
    /\ actionsUniqueIDMapping = <<>>
    /\ novelties = Undef
    /\ noveltyFilenames = Undef
    /\ pool = [function |-> "returnChildrenGeneticSingleRun",
               chunk |-> arange(NAGENTS - 1), finished |-> <<>>, asleep |-> {}]

ReproductionSpec ==
    ReproductionInit /\
    [][\E childIdx \in 0..(NAGENTS - 2) :
            returnChildrenGeneticSingleRun(childIdx)]_vars

\* ================================================================ properties
\* the policy of agent slot `slot` of the generation under evaluation
AgentUnderEvaluation(slot) == agentModels[tempModelPrefix][slot][1]

\* a batch of rollouts has been handed to the pool and every task is done
BatchOfRolloutsDone ==
    /\ pc = "wait"
    /\ pool.function = "runAgentsGeneticSingleRun"
    /\ Pending = {}

\* ------------------------------------------------------------------------ C1
\* C1: when a run that completed generation g is stopped and resumed, the
\* resumed run arrives at the ranking and the children of generation g + 1
\* that the first run arrived at: the ranking it works with is the one on
\* disk, and while it returns the children again every agent file that the
\* first run had written already is written again with the content it has.
C1_ResumeReproducesChildren ==
    [][(rereturnChildrenGenetic /\ restarts = 1 /\ restarts' = restarts) =>
        /\ selfSortedParentIdxs = Val(agentsSortedParentIndexes[geneticGeneration][1])
        /\ \A g \in Generations : \A slot \in AgentSlots :
                agentModels[g][slot] # NoFile =>
                    agentModels'[g][slot] = agentModels[g][slot]]_vars

\* ------------------------------------------------------------------------ C2
\* C2: for every generation whose best agent is on disk, the file of the
\* mean rewards (one per agent), the file of the ranking (the ranking of
\* these rewards) and, with novelty search, the file of the novelty archive
\* (every agent of the generations so far, each with its novelty) are on
\* disk too.
C2_BestAgentImpliesBlobs ==
    \A g \in Generations :
        agentBest[g] # NoFile =>
            /\ agentsRewardsMean[g] # NoFile
            /\ Len(agentsRewardsMean[g][1]) = NAGENTS
            /\ agentsSortedParentIndexes[g] = File(
                    ArgSortDescendingTop(agentsRewardsMean[g][1], NAGENTELITES))
            /\ noveltySearchArg =>
                    /\ noveltyArchiveFile[g] # NoFile
                    /\ Len(noveltyArchiveFile[g][1]) = g * NAGENTS
                    /\ \A k \in 1..Len(noveltyArchiveFile[g][1]) :
                            noveltyArchiveFile[g][1][k].novelty # Undef

\* a run that was stopped in its third generation, with the best agents of
\* two generations on disk, has been started again
C2_Witness ==
    /\ restarts = 1
    /\ agentBest[2] # NoFile
    /\ agentBest[3] = NoFile
    /\ agentsRewardsMean[3] # NoFile

\* ------------------------------------------------------------------------ C3
\* C3: a resumed run that comes to a generation whose best agent is on disk
\* skips it: it loads the ranking and the novelty archive of that
\* generation from their files and goes on to the next generation, without
\* a rollout, without computing a reward and without writing a file.
C3_ResumeSkipsFinishedGenerations ==
    [][(/\ ResumeHead
        /\ agentBest[geneticGeneration + 1] # NoFile
        /\ restarts' = restarts) =>
            /\ pc' = "loop"
            /\ geneticGeneration' = geneticGeneration + 1
            /\ selfSortedParentIdxs' =
                    Val(agentsSortedParentIndexes[geneticGeneration + 1][1])
            /\ noveltyArchive' = Val(noveltyArchiveFile[geneticGeneration + 1][1])
            /\ pool' = NoPool
            /\ UNCHANGED <<diskVars, evalVars, rewards>>]_vars

\* a resumed run has skipped two generations
C3_Witness ==
    /\ envSettings.RESUME
    /\ pc = "loop"
    /\ geneticGeneration = 2
    /\ selfSortedParentIdxs = Val(agentsSortedParentIndexes[2][1])
    /\ noveltyArchive = Val(noveltyArchiveFile[2][1])

\* ------------------------------------------------------------------------ C4
MissingHistoryMessage == "Resuming impossible with missing model history."

\* C4: a resumed run that comes to the first generation without a best agent
\* on disk, when the history of the models was not kept, ends there: it
\* ends with an error (with novelty search, the one resumeGenetic prints),
\* it writes no file, and once it has ended no generation is evaluated or
\* reproduced and the loop does not go back to the first generation.
C4_ResumeEndsWithoutModelHistory ==
    [][restarts' = restarts =>
        /\ (/\ ResumeHead
            /\ agentBest[geneticGeneration + 1] = NoFile
            /\ ~envSettings.KEEPMODELHISTORY) =>
                /\ pc' \in {"returned", "raised"}
                /\ noveltySearch # Undef => MissingHistoryMessage \in printed'
                /\ pool' = NoPool
                /\ UNCHANGED <<diskVars, geneticGeneration>>
        /\ (MissingHistoryMessage \in printed) =>
                /\ pc \in {"returned", "raised"}
                /\ UNCHANGED <<diskVars, pc, geneticGeneration, pool>>]_vars

\* a resumed run with a finished generation has ended with the message
C4_Witness ==
    /\ pc = "returned"
    /\ MissingHistoryMessage \in printed
    /\ geneticGeneration > 0
    /\ agentBest[geneticGeneration] # NoFile
    /\ agentBest[geneticGeneration + 1] = NoFile
    /\ ~envSettings.KEEPMODELHISTORY

\* ------------------------------------------------------------------------ C5
\* the best of the mean rewards of a generation
BestRewardOf(rewardsOfAgents) ==
    CHOOSE x \in {rewardsOfAgents[i] : i \in 1..Len(rewardsOfAgents)} :
        \A i \in 1..Len(rewardsOfAgents) : ~FracLess(x, rewardsOfAgents[i])

\* C5: the best reward of generation g + 1 is not below the best reward of
\* generation g, for every two generations in a row whose rewards are on
\* disk.
C5_BestRewardNonDecreasing ==
    \A g \in 1..(NGENERATIONS - 1) :
        (agentsRewardsMean[g] # NoFile /\ agentsRewardsMean[g + 1] # NoFile) =>
            ~FracLess(BestRewardOf(agentsRewardsMean[g + 1][1]),
                      BestRewardOf(agentsRewardsMean[g][1]))

\* a generation in which every child did worse than the best of the
\* generation before, which had a reward above 0
C5_Witness ==
    \E g \in 1..(NGENERATIONS - 1) :
        /\ agentsRewardsMean[g] # NoFile
        /\ agentsRewardsMean[g + 1] # NoFile
        /\ BestRewardOf(agentsRewardsMean[g][1]).num > 0
        /\ \A slot \in 1..(NAGENTS - 1) :
                FracLess(agentsRewardsMean[g + 1][1][slot],
                         BestRewardOf(agentsRewardsMean[g][1]))

\* ------------------------------------------------------------------------ C6
\* the children of a generation have been returned, in a run or on resume
ChildrenReturned ==
    /\ pc \in {"savebest", "resumed"}
    /\ GenerationOfChildren < NGENERATIONS

\* C6: after the reproduction of a generation that is not the last, the next
\* generation holds NAGENTS agents: slot NAGENTS holds the best agent of the
\* generation, with the parameters it has, and each of the slots
\* 1..NAGENTS - 1 holds one child, the mutation of an agent on disk.
C6_EliteInLastSlot ==
    ChildrenReturned =>
        LET parents == agentModels[GenerationOfChildren]
            children == agentModels[GenerationOfChildren + 1]
        IN  /\ DOMAIN children = 1..NAGENTS
            /\ children[NAGENTS] # NoFile
            /\ children[NAGENTS] =
                    parents[SortedParentIdxsArgument[1][1] + 1]
            /\ \A childIdx \in 0..(NAGENTS - 2) :
                    /\ children[childIdx + 1] # NoFile
                    /\ \E g \in Generations : \E slot \in AgentSlots :
                            /\ agentModels[g][slot] # NoFile
                            /\ children[childIdx + 1] = File(mutateGenetic(
                                    agentModels[g][slot][1],
                                    hyParams.MUTATIONPROBABILITY,
                                    envSettings.SEEDAGENT, childIdx))

\* the second generation has been reproduced, with a child that differs
\* from the best agent
C6_Witness ==
    /\ pc = "savebest"
    /\ tempModelPrefix = 2
    /\ \E slot \in 1..(NAGENTS - 1) :
            agentModels[3][slot] # agentModels[3][NAGENTS]
    /\ agentModels[3][NAGENTS] = agentBest[2]

\* ------------------------------------------------------------------------ C7
\* C7: whatever the order in which the workers of a batch finish, the
\* rewards a batch adds to the reward list stand in the order of the agent
\* indices of the batch: entry k is the reward of the rollout of the k-th
\* agent of the batch.
C7_RewardsIndexAligned ==
    [][(BatchOfRolloutsDone /\ pc' = "chunks") =>
        reward_agents' = reward_agents \o
            [k \in 1..Len(pool.chunk) |->
                Rollout(AgentUnderEvaluation(pool.chunk[k] + 1),
                        envSettings.SEEDENV, currentGame).r]]_vars

\* a batch whose tasks finished in an order other than that of their agents,
\* with different rewards, has been collected
C7_Witness ==
    /\ BatchOfRolloutsDone
    /\ \E j, k \in 1..Len(pool.finished) :
            /\ j < k
            /\ pool.finished[j].arg > pool.finished[k].arg
            /\ pool.finished[j].r # pool.finished[k].r
            /\ pool.finished[j].raised = "none"
            /\ pool.finished[k].raised = "none"
    /\ \A k \in 1..Len(pool.finished) : pool.finished[k].raised = "none"

\* ------------------------------------------------------------------------ C8
\* C8: when all batches of a game are collected the reward list holds, for
\* every agent index in order, the reward of the rollout of that agent,
\* whatever the size of the batches (NAGENTSPARALLEL * maxTasksPerWorker is
\* 2 or 4 here): the list does not depend on the batch size.
C8_RewardsIndependentOfChunkSize ==
    (pc = "chunks" /\ chunksTotal = <<>>) =>
        reward_agents = [i \in 1..NAGENTS |->
            Rollout(AgentUnderEvaluation(i), envSettings.SEEDENV, currentGame).r]

\* a game evaluated in more than one batch is complete, with rewards that
\* differ between the agents
C8_Witness ==
    /\ pc = "chunks"
    /\ chunksTotal = <<>>
    /\ Len(yieldChunks(agentCounts, NAGENTSPARALLEL * maxTasksPerWorker)) > 1
    /\ Len(reward_agents) = NAGENTS
    /\ \E i, j \in 1..NAGENTS : reward_agents[i] # reward_agents[j]

\* ------------------------------------------------------------------------ C9
\* what game `game` of an agent contributes to its reward: the reward
\* accumulated over the steps when the game was won, and 0 when it was not
ContributionOfGame(agent, game) ==
    LET out == Rollout(agent, envSettings.SEEDENV, game)
    IN  IF out.success THEN out.accumulated ELSE 0

RECURSIVE SumOfContributions(_, _)
SumOfContributions(agent, games) ==
    IF games = 0 THEN 0
    ELSE ContributionOfGame(agent, games) + SumOfContributions(agent, games - 1)

\* C9: after the evaluation of a generation the reward of every agent is the
\* arithmetic mean over its NGAMESAVERAGED rollouts, where a rollout that did
\* not end in success contributes 0; the file of the rewards holds the same.
C9_RewardIsMeanOverGames ==
    pc = "rank" =>
        /\ rewards = Val([i \in 1..NAGENTS |->
                Frac(SumOfContributions(AgentUnderEvaluation(i), NGAMESAVERAGED),
                     NGAMESAVERAGED)])
        /\ agentsRewardsMean[tempModelPrefix] = File(rewards[1])

\* an evaluation is complete in which an agent won one game and lost, with
\* reward accumulated, another
C9_Witness ==
    /\ pc = "rank"
    /\ \E i \in 1..NAGENTS : \E g, h \in 1..NGAMESAVERAGED :
            LET won == Rollout(AgentUnderEvaluation(i), envSettings.SEEDENV, g)
                lost == Rollout(AgentUnderEvaluation(i), envSettings.SEEDENV, h)
            IN  /\ won.success
                /\ ~lost.success
                /\ lost.accumulated > 0
                /\ rewards[1][i] = Frac(won.accumulated, NGAMESAVERAGED)
\* ----------------------------------------------------------------------- C10
FatalErrorOfSimulator == "MODFLOW did not terminate normally."

\* C10: when the simulator fails fatally in a rollout of a batch, that
\* rollout alone is given up, with reward 0: the batch is collected, the
\* other rollouts of the batch give their rewards, and the run goes on.
C10_FatalErrorEndsOnlyItsRollout ==
    [][(/\ BatchOfRolloutsDone
        /\ \E k \in 1..Len(pool.finished) :
                pool.finished[k].raised = FatalErrorOfSimulator
        /\ restarts' = restarts) =>
            /\ pc' = "chunks"
            /\ reward_agents' = reward_agents \o
                    [k \in 1..Len(pool.chunk) |->
                        IF MapResults[k].raised = FatalErrorOfSimulator THEN 0
                        ELSE MapResults[k].r]]_vars

\* ----------------------------------------------------------------------- C11
\* C11: a worker that could not load the parent of a child and sleeps before
\* it tries again does not do so for ever: in the end the task is finished
\* (the parent was loaded and the child saved) or the process has ended with
\* an error.
C11_RetriesOfParentLoadEnd ==
    \A childIdx \in 0..(NAGENTS - 2) :
        (pc = "wait" /\ childIdx \in pool.asleep) ~>
            (pc = "raised" \/ childIdx \notin Pending)

\* ----------------------------------------------------------------------- C12
\* agent a stands before agent b in the ranking of the rewards r: a has the
\* higher reward, or the same reward and the lower index
RankedBefore(r, a, b) ==
    \/ FracLess(r[b + 1], r[a + 1])
    \/ (r[a + 1] = r[b + 1] /\ a < b)

\* C12: the selection returns the indices of the NAGENTELITES highest
\* rewards of the generation, the highest first, and agents of equal reward
\* in the order of their indices, the lower index first.
C12_SelectionByRewardThenIndex ==
    pc = "novelty" =>
        LET r == rewards[1]
            selected == sortedParentIdxs[1]
        IN  /\ Len(selected) = NAGENTELITES
            /\ \A k \in 1..(Len(selected) - 1) :
                    RankedBefore(r, selected[k], selected[k + 1])
            /\ \A i \in 0..(NAGENTS - 1) :
                    ~InSeq(i, selected) =>
                        \A k \in 1..Len(selected) : RankedBefore(r, selected[k], i)

\* ----------------------------------------------------------------------- C13
\* the tasks of a batch of children are with the workers
ChildrenWithWorkers ==
    /\ pc = "wait"
    /\ pool.function = "returnChildrenGeneticSingleRun"

\* the child slots, by childIdx, that take a novelty parent in a generation
\* whose number is a multiple of ADDNOVELTYEVERY: the last NNOVELTYELITES of
\* the NAGENTS - 1 child slots
NoveltySlots == {childIdx \in 0..(NAGENTS - 2) :
                    childIdx + 1 > (NAGENTS - 1) - NNOVELTYELITES}

\* the files of the novelty parents selected, and of the reward elite of the
\* generation that is reproduced
NoveltyParentFiles ==
    {noveltyFilenames[1][candidateNoveltyParentIdxs[1][k] + 1] :
        k \in 1..Len(candidateNoveltyParentIdxs[1])}
RewardEliteFiles ==
    {<<GenerationOfChildren, SortedParentIdxsArgument[1][k] + 1>> :
        k \in 1..NAGENTELITES}

\* C13: with novelty search, in the reproduction of a generation whose
\* number (1-based) is a multiple of ADDNOVELTYEVERY the last NNOVELTYELITES
\* child slots, and only they, take their parents from the novelty parents
\* selected, each of these parents for one child; every other child slot,
\* and every child slot of any other generation, takes its parent from the
\* reward elite of the generation.
C13_NoveltyParentsInLastSlots ==
    ChildrenWithWorkers =>
        \A childIdx \in 0..(NAGENTS - 2) :
            IF /\ GenerationOfChildren % hyParams.ADDNOVELTYEVERY = 0
               /\ childIdx \in NoveltySlots
            THEN /\ ParentFile(childIdx) \in NoveltyParentFiles
                 /\ \A other \in NoveltySlots \ {childIdx} :
                        ParentFile(other) # ParentFile(childIdx)
                 /\ Cardinality(NoveltySlots) = Cardinality(NoveltyParentFiles)
            ELSE ParentFile(childIdx) \in RewardEliteFiles

\* ----------------------------------------------------------------------- C14
\* the novelty update of a generation is complete
NoveltyUpdated ==
    /\ pc = "children"
    /\ ~rereturnChildrenGenetic

\* the behaviours of an archive: the flat action sequences of its entries
BehavioursOf(archive) ==
    {Flatten(archive[k].actions) : k \in 1..Len(archive)}

\* C14: at the end of the novelty update of a generation any two entries of
\* the archive with the same flat action sequence have the same signature id
\* and the same novelty, and there are as many signature ids as there are
\* different sequences, numbered from 0: no id was issued for a sequence
\* that had been seen before.  The archive on disk is the same.
C14_SameBehaviourSameSignature ==
    NoveltyUpdated =>
        LET archive == noveltyArchive[1]
        IN  /\ \A j, k \in 1..Len(archive) :
                    Flatten(archive[j].actions) = Flatten(archive[k].actions) =>
                        /\ archive[j].actionsUniqueID = archive[k].actionsUniqueID
                        /\ archive[j].novelty # Undef
                        /\ archive[j].novelty = archive[k].novelty
            /\ {archive[k].actionsUniqueID : k \in 1..Len(archive)} =
                    0..(Cardinality(BehavioursOf(archive)) - 1)
            /\ noveltyArchiveFile[tempModelPrefix] = File(archive)

\* the archive of a later generation holds two entries of one behaviour from
\* different generations, and entries of different behaviours
C14_Witness ==
    /\ NoveltyUpdated
    /\ tempModelPrefix > 1
    /\ \E j, k \in 1..Len(noveltyArchive[1]) :
            /\ noveltyArchive[1][j].modelFile[1] # noveltyArchive[1][k].modelFile[1]
            /\ Flatten(noveltyArchive[1][j].actions) =
                    Flatten(noveltyArchive[1][k].actions)
    /\ Cardinality(BehavioursOf(noveltyArchive[1])) > 2

\* ----------------------------------------------------------------------- C15
\* the representative of a signature id: the first entry of the archive
\* with that id, by its 0-based index
RepresentativeOf(archive, id) ==
    (CHOOSE k \in 1..Len(archive) :
        /\ archive[k].actionsUniqueID = id
        /\ \A j \in 1..(k - 1) : archive[j].actionsUniqueID # id) - 1

\* the mean of the distances of the behaviour of signature id `id` to every
\* other behaviour of the archive, each behaviour counted once
MeanDistanceToOtherBehaviours(archive, id) ==
    LET n == Cardinality(BehavioursOf(archive))
        others == [j \in 1..(n - 1) |-> IF j - 1 < id THEN j - 1 ELSE j]
    IN  FracMean([j \in 1..(n - 1) |->
            calculateNoveltyPerPair(archive, RepresentativeOf(archive, id),
                                    RepresentativeOf(archive, others[j]))])

\* C15: after the novelty update the novelty of every entry of the archive
\* is the mean of the pairwise distances of its behaviour to all other
\* behaviours of the archive, every behaviour counted once: duplicates of
\* the behaviour itself or of another behaviour add no terms, and a duplicate
\* has the novelty of the representative of its signature.
C15_NoveltyIsMeanOverDistinctBehaviours ==
    (NoveltyUpdated /\ Cardinality(BehavioursOf(noveltyArchive[1])) > 1) =>
        \A k \in 1..Len(noveltyArchive[1]) :
            noveltyArchive[1][k].novelty =
                Val(MeanDistanceToOtherBehaviours(noveltyArchive[1],
                        noveltyArchive[1][k].actionsUniqueID))

\* ----------------------------------------------------------------------- C16
\* the number of places at which two lists hold the same action
RECURSIVE Matches(_, _)
Matches(A, B) ==
    IF A = <<>> \/ B = <<>> THEN 0
    ELSE (IF Head(A) = Head(B) THEN 1 ELSE 0) + Matches(Tail(A), Tail(B))

Shorter(m, n) == IF m < n THEN m ELSE n

\* the novelties of an archive of two agents of one game have been computed
TwoBehavioursScored ==
    /\ pc = "scored"
    /\ Len(noveltyArchive[1]) = 2

\* C16: for two lists of actions A and B that are not empty, m the length of
\* the shorter, the metric is (m - matches) / m, matches the number of
\* places below m with the same action in both: 0 for equal lists, 1 when
\* all m places differ, whatever the lengths; and the two agents of the
\* archive, which are given to the metric in the two orders, get the same
\* value.
C16_MetricIsShareOfMismatches ==
    TwoBehavioursScored =>
        LET A == noveltyArchive[1][1].actions[1]
            B == noveltyArchive[1][2].actions[1]
            m == Shorter(Len(A), Len(B))
            d == novelties[1][1]
        IN  /\ d = Frac(m - Matches(A, B), m)
            /\ novelties[1][2] = d
            /\ A = B => d = FracOfInt(0)
            /\ (\A i \in 1..m : A[i] # B[i]) => d = FracOfInt(1)
            /\ ~FracLess(d, FracOfInt(0)) /\ ~FracLess(FracOfInt(1), d)

\* a shorter and a longer list that agree in one place and differ in
\* another have been given to the metric
C16_Witness ==
    /\ TwoBehavioursScored
    /\ Len(noveltyArchive[1][1].actions[1]) > Len(noveltyArchive[1][2].actions[1])
    /\ novelties[1][1] = Frac(1, 2)
    /\ novelties[1][2] = Frac(1, 2)

\* ----------------------------------------------------------------------- C17
\* the distance of the behaviours of two entries of an archive: the metric
\* on the flat concatenations of their lists of actions
DistanceOfBehaviours(archive, iAgent, iAgent2) ==
    actionNoveltyMetric(Flatten(archive[iAgent + 1].actions),
                        Flatten(archive[iAgent2 + 1].actions))

\* C17: the pairwise distances that enter the novelty of an entry of the
\* archive are the distances of the behaviours, the flat concatenations of
\* the lists of actions of the games: the novelty of an entry is the mean of
\* these distances from the representative of its signature to the other
\* entries, and so lies between 0 and 1.
C17_PairDistanceOfFlatBehaviours ==
    NoveltyUpdated =>
        \A k \in 1..Len(noveltyArchive[1]) :
            LET archive == noveltyArchive[1]
                iAgent == RepresentativeOf(archive, archive[k].actionsUniqueID)
                others == [j \in 1..(Len(archive) - 1) |->
                                IF j - 1 < iAgent THEN j - 1 ELSE j]
            IN  /\ archive[k].novelty = Val(FracMean(
                        [j \in 1..Len(others) |->
                            DistanceOfBehaviours(archive, iAgent, others[j])]))
                /\ ~FracLess(FracOfInt(1), archive[k].novelty[1])

\* ----------------------------------------------------------------------- C18
\* the tensor paramIdx (1-based) of child childIdx is selected for mutation
TensorSelected(childIdx, paramIdx) ==
    random(envSettings.SEEDAGENT, childIdx, paramIdx - 1) <
        hyParams.MUTATIONPROBABILITY

\* C18: a child differs from its parent in the tensors selected for mutation
\* only, each by the noise added to it; every other tensor is the one of the
\* parent, and with MUTATIONPROBABILITY = 0 the child has the parameters of
\* its parent.
C18_MutationChangesSelectedTensorsOnly ==
    (pc = "wait" /\ pool.function = "returnChildrenGeneticSingleRun"
        /\ candidateParentIdxs = Val(<<0>>)) =>
        \A k \in 1..Len(pool.finished) :
            LET childIdx == pool.finished[k].arg
                parent == agentModels[tempModelPrefix][1][1]
                child == agentModels[tempNextModelPrefix][childIdx + 1][1]
            IN  /\ Len(child) = Len(parent)
                /\ \A paramIdx \in 1..Len(parent) :
                        IF TensorSelected(childIdx, paramIdx)
                        THEN Abs(child[paramIdx] - parent[paramIdx]) = MUTATIONPOWER
                        ELSE child[paramIdx] = parent[paramIdx]
                /\ hyParams.MUTATIONPROBABILITY = 0 => child = parent

\* every child of a parent has been made, one of them with one tensor
\* changed and the other tensor left
C18_Witness ==
    /\ pc = "wait"
    /\ pool.function = "returnChildrenGeneticSingleRun"
    /\ candidateParentIdxs = Val(<<0>>)
    /\ Len(pool.finished) = NAGENTS - 1
    /\ \E slot \in 1..(NAGENTS - 1) :
            LET parent == agentModels[tempModelPrefix][1][1]
                child == agentModels[tempNextModelPrefix][slot][1]
            IN  child[1] # parent[1] /\ child[2] = parent[2]


\* ---------------------------------------------------------------- batches
\* the arguments of the rollouts of the game that were submitted before the
\* chunk in the pool: reward_agents has one result for each of them
ArgumentsOfChunk ==
    [k \in 1..Len(pool.chunk) |-> agentCounts[Len(reward_agents) + k]]

\* a chunk is handed to a new pool
ChunkSubmitted == pool'.function # "none" /\ pool'.chunk # pool.chunk

AgentWritten(generation) ==
    \E slot \in AgentSlots :
        /\ agentModels'[generation][slot] # NoFile
        /\ agentModels'[generation][slot] # agentModels[generation][slot]

\* all NAGENTS x NGAMESAVERAGED rollouts of the generation have returned: every
\* agent has the actions of every game in its results file and the mean
\* rewards of the generation are dumped
RolloutsReturned(generation) ==
    /\ agentsRewardsMean[generation] # NoFile
    /\ \A slot \in AgentSlots :
            /\ agentResults[generation][slot] # NoFile
            /\ \A game \in 1..NGAMESAVERAGED :
                    agentResults[generation][slot][1][game] # <<>>

\* the archive of the generation is on disk, with the agents of the
\* generation in it and a novelty for every entry
ArchivePersisted(generation) ==
    /\ noveltyArchiveFile[generation] # NoFile
    /\ LET archive == noveltyArchiveFile[generation][1]
       IN  /\ \A slot \in AgentSlots : \E k \in 1..Len(archive) :
                    archive[k].modelFile = <<generation, slot>>
           /\ \A k \in 1..Len(archive) : archive[k].novelty # Undef

\* C20: no agent file of generation g+1 is written before all rollouts of
\* generation g have returned and, with novelty search, before the novelties
\* of the archive are computed and the archive of generation g is dumped.
C20_ChildrenAfterEvaluationAndNovelty ==
    [][\A g \in 1..(NGENERATIONS - 1) :
            AgentWritten(g + 1) =>
                /\ RolloutsReturned(g)
                /\ noveltySearch = Val(TRUE) => ArchivePersisted(g)]_vars

\* the children of generation 2 are on disk in a run with novelty search,
\* after the rollouts of generation 1 and the dump of its archive
C20_Witness ==
    /\ pc = "savebest"
    /\ restarts = 0
    /\ geneticGeneration = 0
    /\ noveltySearch = Val(TRUE)
    /\ \A slot \in AgentSlots : agentModels[2][slot] # NoFile
    /\ RolloutsReturned(1)
    /\ ArchivePersisted(1)


\* ------------------------------------------------------- agents on disk
\* the step writes the agent file of the slot again, with other parameters
RewrittenWithOtherParameters(generation, slot) ==
    /\ agentModels[generation][slot] # NoFile
    /\ agentModels'[generation][slot] # NoFile
    /\ agentModels'[generation][slot] # agentModels[generation][slot]

\* C21: an agent file (generation, index) that has been written is never
\* written again with different parameters, in runs that are interrupted
\* and resumed too.
C21_AgentNeverRewritten ==
    [][\A generation \in Generations : \A slot \in AgentSlots :
            ~RewrittenWithOtherParameters(generation, slot)]_vars


\* ------------------------------------------------------ files of the tasks
\* the step is the end of the task of the pool with this argument
TaskFinished(arg) ==
    /\ pool.function # "none"
    /\ pool'.function = pool.function
    /\ Len(pool'.finished) = Len(pool.finished) + 1
    /\ pool'.finished[Len(pool'.finished)].arg = arg

\* the step leaves every file of the kind alone, but for the one of the slot
OnlyFileWritten(files, filesAfter, generation, slot) ==
    \A g \in Generations : \A i \in AgentSlots :
        <<g, i>> # <<generation, slot>> => filesAfter[g][i] = files[g][i]

\* C22: within a batch no two workers write the same file: the tasks of a
\* batch have different indexes, a rollout task writes nothing but the
\* results file of its agent, a reproduction task writes nothing but the
\* agent file of its child in the next generation, and that is never the
\* slot of the elite.
C22_WorkersWriteOwnFilesOnly ==
    /\ [](pc = "wait" =>
            \A j, k \in 1..Len(pool.chunk) :
                pool.chunk[j] = pool.chunk[k] => j = k)
    /\ [][\A arg \in 0..(NAGENTS - 1) : TaskFinished(arg) =>
            /\ arg \in Pending
            /\ UNCHANGED <<agentsRewardsMean, agentsSortedParentIndexes,
                           noveltyArchiveFile, agentBest, bestAgentSaved>>
            /\ pool.function = "runAgentsGeneticSingleRun" =>
                    /\ agentModels' = agentModels
                    /\ OnlyFileWritten(agentResults, agentResults',
                                       tempModelPrefix, arg + 1)
            /\ pool.function = "returnChildrenGeneticSingleRun" =>
                    /\ agentResults' = agentResults
                    /\ OnlyFileWritten(agentModels, agentModels',
                                       tempNextModelPrefix, arg + 1)
                    /\ agentModels'[tempNextModelPrefix][arg + 1] # NoFile
                    /\ arg + 1 # EliteSlot
                    /\ agentModels[tempNextModelPrefix][EliteSlot] # NoFile]_vars

\* every child of a batch is written, next to the elite of the coordinator,
\* and the agents of the generation before have their results of every game
C22_Witness ==
    /\ pc = "wait"
    /\ pool.function = "returnChildrenGeneticSingleRun"
    /\ Len(pool.finished) = NAGENTS - 1
    /\ \A slot \in AgentSlots :
            /\ agentModels[tempNextModelPrefix][slot] # NoFile
            /\ agentResults[tempModelPrefix][slot] # NoFile
    /\ \E slot \in AgentSlots :
            agentModels[tempNextModelPrefix][slot] #
                agentModels[tempNextModelPrefix][EliteSlot]


\* ------------------------------------------------ the archive only grows
\* the archive after has every entry of the archive before, with its item
\* index, its agent file and its actions, and the entries it has more have
\* item indexes above those of all entries before them
ArchiveExtended(before, after) ==
    /\ Len(before) <= Len(after)
    /\ \A k \in 1..Len(before) :
            /\ after[k].itemID = before[k].itemID
            /\ after[k].modelFile = before[k].modelFile
            /\ after[k].actions = before[k].actions
    /\ \A k \in (Len(before) + 1)..Len(after) : \A j \in 1..(k - 1) :
            after[j].itemID < after[k].itemID

\* C23: entries of the novelty archive are only ever added, in the archive
\* of the process and in the archive files: no entry goes away, the item
\* index, the agent file and the actions of an entry stay as they are, and
\* a new entry has an item index above all the others, whatever the
\* generation; the archive file of a generation extends those of the
\* generations before.
C23_ArchiveAppendOnly ==
    /\ [][/\ (restarts' = restarts /\ noveltyArchive # Undef) =>
                /\ noveltyArchive' # Undef
                /\ ArchiveExtended(noveltyArchive[1], noveltyArchive'[1])
           /\ \A g \in Generations : noveltyArchiveFile[g] # NoFile =>
                /\ noveltyArchiveFile'[g] # NoFile
                /\ ArchiveExtended(noveltyArchiveFile[g][1],
                                   noveltyArchiveFile'[g][1])]_vars
    /\ [](\A g, h \in Generations :
            (g < h /\ noveltyArchiveFile[g] # NoFile
                   /\ noveltyArchiveFile[h] # NoFile) =>
                ArchiveExtended(noveltyArchiveFile[g][1],
                                noveltyArchiveFile[h][1]))


\* ---------------------------------------------------------------- cleanup
\* the step removes an agent file of the generation
AgentRemoved(generation) ==
    \E slot \in AgentSlots :
        /\ agentModels[generation][slot] # NoFile
        /\ agentModels'[generation][slot] = NoFile

\* the agents of a completed generation that go on: the best agent has its
\* copies in the temporary folder and in models/, and the next generation,
\* when there is one, has the elite and all children
SurvivorsOnDisk(generation) ==
    /\ agentBest'[generation] # NoFile
    /\ bestAgentSaved'[generation] = agentBest'[generation]
    /\ generation < NGENERATIONS =>
            /\ agentModels'[generation + 1][EliteSlot] = agentBest'[generation]
            /\ \A slot \in AgentSlots :
                    agentModels'[generation + 1][slot] # NoFile

\* C24: agent files are removed only without KEEPMODELHISTORY, at the end of
\* a generation, and they are model files of the agents of that generation
\* only; the files of the archive, of the ranking, of the rewards and of the
\* results of the agents stay as they are, as do the best agent, the next
\* generation and the entries of the archive in memory.
C24_CleanupRemovesModelsOnly ==
    [][\A generation \in Generations : AgentRemoved(generation) =>
            /\ ~envSettings.KEEPMODELHISTORY
            /\ pc = "cleanup"
            /\ generation = tempModelPrefix
            /\ generation = geneticGeneration + 1
            /\ \A g \in Generations \ {generation} :
                    agentModels'[g] = agentModels[g]
            /\ UNCHANGED <<agentResults, agentsRewardsMean,
                           agentsSortedParentIndexes, noveltyArchiveFile,
                           agentBest, bestAgentSaved, noveltyArchive,
                           noveltyItemCount>>
            /\ \A slot \in AgentSlots : agentResults[generation][slot] # NoFile
            /\ agentsRewardsMean[generation] # NoFile
            /\ agentsSortedParentIndexes[generation] # NoFile
            /\ noveltyArchiveFile[generation] # NoFile
            /\ SurvivorsOnDisk(generation)]_vars

\* the models of generation 1 are removed and those of generation 2 are
\* there, with the files of the rewards, the ranking, the archive and the
\* results of generation 1
C24_Witness ==
    /\ ~envSettings.KEEPMODELHISTORY
    /\ pc = "loop"
    /\ geneticGeneration = 1
    /\ restarts = 0
    /\ \A slot \in AgentSlots :
            /\ agentModels[1][slot] = NoFile
            /\ agentModels[2][slot] # NoFile
            /\ agentResults[1][slot] # NoFile
    /\ agentsRewardsMean[1] # NoFile
    /\ agentsSortedParentIndexes[1] # NoFile
    /\ noveltyArchiveFile[1] # NoFile


\* -------------------------------------------------------- novelty parents
\* the novelty of entry i (from 0) of the archive of the process
NoveltyOfEntry(i) == noveltyArchive[1][i + 1].novelty[1]

\* C25: the novelty parents of a reproduction are the NNOVELTYELITES entries
\* of highest novelty of the whole archive, which has the agents of every
\* generation up to the one reproduced, in descending order of novelty; the
\* novelty slots take the files of these entries.
C25_NoveltyParentsFromWholeArchive ==
    ChildrenWithWorkers =>
        LET archive == noveltyArchive[1]
            entries == 0..(Len(archive) - 1)
            selected == candidateNoveltyParentIdxs[1]
        IN  /\ \A g \in 1..GenerationOfChildren : \A slot \in AgentSlots :
                    \E i \in entries : archive[i + 1].modelFile = <<g, slot>>
            /\ Len(selected) = NNOVELTYELITES
            /\ \A k \in 1..Len(selected) : selected[k] \in entries
            /\ \A j, k \in 1..Len(selected) :
                    /\ selected[j] = selected[k] => j = k
                    /\ j < k => ~FracLess(NoveltyOfEntry(selected[j]),
                                          NoveltyOfEntry(selected[k]))
            /\ \A i \in entries :
                    (\A k \in 1..Len(selected) : selected[k] # i) =>
                        \A k \in 1..Len(selected) :
                            ~FracLess(NoveltyOfEntry(selected[k]),
                                      NoveltyOfEntry(i))
            /\ \A childIdx \in 0..(NAGENTS - 2) : IsNoveltySlot(childIdx) =>
                    ParentFile(childIdx) =
                        archive[selected[NAGENTS - (childIdx + 1)] + 1].modelFile


\* ------------------------------------------------------ files of parents
\* C26: while the children of a batch are made, the model file of the
\* parent of every child of the batch is on disk, be it a reward elite of
\* the generation or a novelty parent of the archive, with and without
\* KEEPMODELHISTORY.
C26_ParentFileOnDisk ==
    ChildrenWithWorkers =>
        \A k \in 1..Len(pool.chunk) :
            LET agentPth == ParentFile(pool.chunk[k])
            IN  agentModels[agentPth[1]][agentPth[2]] # NoFile


\* ------------------------------------------- the list of unique agents
\* the lists of unique and duplicate agents are up to date: after the
\* novelty update of a generation, and when an evaluation begins, which in
\* a resumed run is after the lists were built again
UniqueListsUpToDate ==
    /\ noveltySearch = Val(TRUE)
    /\ NoveltyUpdated \/ pc = "evaluate"

\* entry i (from 0) is the first of the archive with its flat actions
FirstOfItsBehaviour(archive, i) ==
    \A j \in 1..i :
        Flatten(archive[j].actions) # Flatten(archive[i + 1].actions)

\* C27: after the novelty update of a generation and after the lists were
\* built again on resume, entry k of the list of unique agents is the first
\* agent of the archive with signature id k, every other agent is a
\* duplicate of the unique agent at its signature id, and after the update
\* every agent has the novelty computed for that unique agent.
C27_UniqueListIndexedBySignature ==
    UniqueListsUpToDate =>
        LET archive == noveltyArchive[1]
        IN  /\ Len(agentsUniqueIDs) = Len(agentsUnique)
            /\ \A k \in 1..Len(agentsUnique) :
                    /\ agentsUniqueIDs[k] = k - 1
                    /\ agentsUnique[k] \in 0..(Len(archive) - 1)
                    /\ archive[agentsUnique[k] + 1].actionsUniqueID = k - 1
                    /\ FirstOfItsBehaviour(archive, agentsUnique[k])
            /\ \A i \in 0..(Len(archive) - 1) :
                    LET id == archive[i + 1].actionsUniqueID
                    IN  /\ id + 1 \in 1..Len(agentsUnique)
                        /\ Flatten(archive[agentsUnique[id + 1] + 1].actions) =
                                Flatten(archive[i + 1].actions)
                        /\ InSeq(i, agentsDuplicate) <=> agentsUnique[id + 1] # i
                        /\ InSeq(i, agentsUnique) <=> agentsUnique[id + 1] = i
                        /\ NoveltyUpdated =>
                                archive[i + 1].novelty =
                                    Val(calculateNoveltyPerAgent(archive,
                                            Len(archive), agentsUnique[id + 1]))

\* the novelty update of a generation of a resumed run, made with lists
\* that were built again from an archive with duplicate agents
C27_Witness ==
    /\ NoveltyUpdated
    /\ noveltySearch = Val(TRUE)
    /\ restarts = 1
    /\ ~envSettings.RESUME
    /\ Len(agentsUnique) > 2
    /\ \E k \in 1..Len(agentsDuplicate) :
            noveltyArchive[1][agentsDuplicate[k] + 1].modelFile[1] < tempModelPrefix


\* ------------------------------------- the children returned on resume
\* C28: when a resumed run returns the children of the last completed
\* generation g again, the novelty slots are decided for generation g, as
\* they were when the generation was reproduced first (g a multiple of
\* ADDNOVELTYEVERY), and the children go to the slots of generation g + 1.
C28_ResumeDecidesForSameGeneration ==
    (ChildrenWithWorkers /\ rereturnChildrenGenetic) =>
        /\ tempModelPrefix = GenerationOfChildren
        /\ tempNextModelPrefix = GenerationOfChildren + 1
        /\ \A childIdx \in 0..(NAGENTS - 2) :
                IsNoveltySlot(childIdx) <=>
                    /\ GenerationOfChildren % hyParams.ADDNOVELTYEVERY = 0
                    /\ childIdx \in NoveltySlots


\* ------------------------------------------- runs without novelty search
\* the exceptions of a read of self.noveltySearch or self.novelties that
\* was not assigned
NoveltyAttributeErrors == {"AttributeError: noveltySearch", "AttributeError"}

\* C29: a run without novelty search goes through evaluation, selection,
\* reproduction and the saving of the best agent of every generation, and
\* reads no novelty attribute that was not set: it never ends with the
\* exception of such a read.
C29_RunWithoutNoveltySearch ==
    ~noveltySearchArg => raised \notin NoveltyAttributeErrors


\* ------------------------------------------------ the ranking on resume
\* the ranking of resumeGenetic is the one of the file of the generation
\* before, which was completed: its best agent is on disk
RankingOfCompletedGeneration ==
    /\ geneticGeneration >= 1
    /\ agentBest[geneticGeneration] # NoFile
    /\ agentsSortedParentIndexes[geneticGeneration] # NoFile
    /\ selfSortedParentIdxs = agentsSortedParentIndexes[geneticGeneration]

\* C30: a resumed run returns children again, or reports the missing
\* history, only with the ranking loaded from the completed generation
\* before; it never reads a ranking that was not set, also when no
\* generation has a best agent on disk; and once it has left the resume it
\* returns no children again.
C30_ResumeWithLoadedRanking ==
    /\ [](raised # "AttributeError: sortedParentIdxs")
    /\ [](rereturnChildrenGenetic => RankingOfCompletedGeneration)
    /\ []((MissingHistoryMessage \in printed) => RankingOfCompletedGeneration)
    /\ [][(restarts' = restarts /\ ~envSettings.RESUME) =>
                /\ ~envSettings'.RESUME
                /\ ~rereturnChildrenGenetic']_vars

====
